---- MODULE Spec2Model ----
(***************************************************************************)
(* The trial execution engine of the mental-imagery experiment:            *)
(* TrialProtocol (src/core/trial_protocol.py) as a state machine.  One     *)
(* worker thread executes run(); any other thread may call                 *)
(* request_abort() between two steps of it.  The display surface, the      *)
(* audio cue player and the camera recorder are the collaborators of       *)
(* spec.md section 6, modelled at their interface.  EventLogger.log        *)
(* (src/data/event_logger.py) called by several threads is a second        *)
(* machine, SpecLog, over its own variables; WebcamCamera                  *)
(* (src/hardware/camera_webcam.py) with its record and grab threads is a   *)
(* third, SpecCam; the end-time clock of MainWindow                        *)
(* (src/gui/main_window.py) is a fourth, SpecClock.                        *)
(***************************************************************************)
EXTENDS Integers, Sequences, FiniteSets, TLC

VARIABLES
    \* --- settings and derived frame counts, fixed at construction ---
    training_repetitions, imagination_cycles,
    n_shape, n_blank, n_start_beep, n_end_beep,
    n_recording_delay, n_imagination, n_inter_delay, n_recording_frames,
    n_close_eyes_wait, n_starting_wait, n_train_to_meas_delay,
    is_last_shape, is_last_queue_item,
    cam_frames,          \* what stop_recording returns for each cycle
    video_paths,         \* what video_path_factory returns for each cycle
    phase_members,       \* the members of the TrialPhase enumeration in force
    \* --- the engine ---
    pc, result, abort, i, f, beep_stopped, beep_counter,
    total_frames_recorded, phase,
    cycle_video_path,    \* the path video_path_factory gave for the cycle
    path_calls,          \* the calls that make or take a video path
    runs,                \* the runs started on this engine, this one included
    prev_result,         \* what the run before this one returned
    phase_log,           \* the tags passed to the phase-change callback
    beep_calls,          \* the arguments passed to the beep-progress callback
    \* --- display surface ---
    pending, screen, flips,
    \* --- audio cue player ---
    playing, instructions,
    \* --- camera recorder ---
    recording, rec_stops, recordings,
    \* --- event logger ---
    events,
    \* --- observations of the run, read by the properties only ---
    tone_age, last_stop, abort_flips, abort_in_rec, abort_pc, abort_i,
    abort_checks,
    ops,                 \* the calls made on the audio player and the camera
    \* --- EventLogger.log called from several threads ---
    log_pc, log_calls, log_now, log_lock, log_buf, log_file, log_clock,
    \* --- WebcamCamera: its fields, its record and grab threads, the
    \*     thread that calls start_recording and stop_recording ---
    wc_recording, wc_stop_event, wc_frames, wc_rpc, wc_writer, wc_written,
    wc_gpc, wc_pc, wc_ncalls, wc_last, wc_ret, wc_at_call, wc_raised,
    \* --- MainWindow: the end-time clock and the state notifications ---
    experiment_started, expected_end, dead_time_start,
    et_now,              \* datetime.now(), in seconds
    et_state,            \* the state last notified
    et_left,             \* when RUNNING was left for a pause or a confirm wait
    et_prev_end,         \* expected_end before the last notification
    et_dead,             \* the dead time ended by the last notification
    \* --- ControlPanel: its pause flag, its buttons, the signals emitted ---
    cp_is_paused, cp_text, cp_visible, cp_shown, cp_emitted,
    \* --- AppMemory: the subject history and the calls of add_subjects ---
    subject_history,
    am_file,             \* "subject_history" in memory.json
    am_names,            \* the argument of the last call
    am_before,           \* subject_history when the last call was made
    am_repeat            \* the last call repeated the call before it

cfgvars == <<training_repetitions, imagination_cycles, n_shape, n_blank,
             n_start_beep, n_end_beep, n_recording_delay, n_imagination,
             n_inter_delay, n_recording_frames, n_close_eyes_wait,
             n_starting_wait, n_train_to_meas_delay, is_last_shape,
             is_last_queue_item, cam_frames, video_paths, phase_members>>
engvars == <<pc, result, abort, i, f, beep_stopped, beep_counter,
             total_frames_recorded, phase, phase_log, beep_calls>>
beepvars == <<beep_counter, beep_calls>>
phasevars == <<phase, phase_log>>
pathvars == <<cycle_video_path, path_calls>>
runvars == <<runs, prev_result>>
dispvars == <<pending, screen, flips>>
audiovars == <<playing, instructions>>
camvars == <<recording, rec_stops, recordings>>
obsvars == <<tone_age, last_stop, abort_flips, abort_in_rec, abort_pc,
             abort_i, abort_checks, ops>>
protovars == <<cfgvars, engvars, pathvars, runvars, dispvars, audiovars,
               camvars, events, obsvars>>
logvars == <<log_pc, log_calls, log_now, log_lock, log_buf, log_file,
             log_clock>>
wcvars == <<wc_recording, wc_stop_event, wc_frames, wc_rpc, wc_writer,
            wc_written, wc_gpc, wc_pc, wc_ncalls, wc_last, wc_ret,
            wc_at_call, wc_raised>>
etvars == <<experiment_started, expected_end, dead_time_start, et_now,
            et_state, et_left, et_prev_end, et_dead>>
memvars == <<subject_history, am_file, am_names, am_before, am_repeat>>
cpvars == <<cp_is_paused, cp_text, cp_visible, cp_shown, cp_emitted>>
vars == <<protovars, logvars, wcvars, etvars, memvars, cpvars>>

\* what the steps of one machine leave alone: the variables of the others
sidevars == <<logvars, wcvars, etvars, memvars, cpvars>>
notlog == <<protovars, wcvars, etvars, memvars, cpvars>>
notwc == <<protovars, logvars, etvars, memvars, cpvars>>
notet == <<protovars, logvars, wcvars, memvars, cpvars>>
notmem == <<protovars, logvars, wcvars, etvars, cpvars>>
notcp == <<protovars, logvars, wcvars, etvars, memvars>>

(***************************************************************************)
(* Bounds of the model.                                                    *)
(***************************************************************************)
MaxFrames == 2      \* frame counts range over 0..MaxFrames
PanelClicks == 2    \* clicks on the buttons of the control panel
MaxReps == 2        \* training_repetitions ranges over 0..MaxReps
MaxCycles == 3      \* imagination_cycles ranges over 0..MaxCycles
MaxCapture == 1     \* stop_recording returns 0..MaxCapture
BaseFrames == 1     \* frame counts of the phases that are not being varied
BaseReps == 1       \* training_repetitions when not varied
BaseCycles == 2     \* imagination_cycles when not varied
LogThreads == 2     \* threads that call EventLogger.log
LogCalls == 1       \* calls of log each of them makes
WcCalls == 4        \* calls of start_recording / stop_recording explored
WcFrames == 2       \* frames a recording can capture
MaxClock == 4       \* seconds of wall-clock time explored
MaxNames == 2       \* names in one call of add_subjects
MaxRuns == 2        \* runs of one engine, one after the other

Tones == {"start_imagine", "end_imagine"}

(***************************************************************************)
(* TrialPhase as src/core/enums.py defines it, and the tags that           *)
(* trial_protocol.py passes to _phase.                                     *)
(***************************************************************************)
TrialPhase ==
    {"TRAINING_SHAPE", "TRAINING_BLANK", "INSTRUCTION_CLOSE_EYES",
     "INSTRUCTION_WAIT", "INSTRUCTION_STARTING", "INSTRUCTION_READY",
     "MEASUREMENT_BEEP", "MEASUREMENT_SILENCE", "INSTRUCTION_POST",
     "INTER_TRIAL"}

ProtocolPhaseTags ==
    {"TRAINING_SHAPE", "TRAINING_BLANK", "INTER_TRIAL",
     "INSTRUCTION_CLOSE_EYES", "INSTRUCTION_WAIT", "INSTRUCTION_STARTING",
     "INSTRUCTION_READY", "MEASUREMENT_START_BEEP",
     "MEASUREMENT_RECORDING_DELAY", "MEASUREMENT_IMAGINING",
     "MEASUREMENT_END_BEEP", "MEASUREMENT_INTER_DELAY", "INSTRUCTION_POST"}

\* TrialPhase.<tag> evaluates only for a member; otherwise AttributeError
Defined(tag) == tag \in phase_members

(***************************************************************************)
(* Construction: the derived recording window.                             *)
(***************************************************************************)
\* the window clamped at 0 instead of 1
RecordingFramesClampZero(imag, sbeep, rdelay) ==
    LET d == imag - sbeep - rdelay IN IF d < 0 THEN 0 ELSE d

RecordingFrames(imag, sbeep, rdelay) ==
    LET d == imag - sbeep - rdelay IN IF d < 1 THEN 1 ELSE d

(***************************************************************************)
(* The configurations explored.  The frame counts of one part of the      *)
(* trial are varied over their whole range while the others keep a base   *)
(* value.                                                                  *)
(***************************************************************************)
Frames == 0..MaxFrames

BaseConfig ==
    [training_repetitions |-> BaseReps, imagination_cycles |-> BaseCycles,
     n_shape |-> BaseFrames, n_blank |-> BaseFrames,
     n_start_beep |-> BaseFrames, n_end_beep |-> BaseFrames,
     n_recording_delay |-> BaseFrames, n_imagination |-> 3 * BaseFrames,
     n_inter_delay |-> BaseFrames, n_close_eyes_wait |-> BaseFrames,
     n_starting_wait |-> BaseFrames, n_train_to_meas_delay |-> 0,
     is_last_shape |-> FALSE, is_last_queue_item |-> FALSE,
     cam_frames |-> [c \in 1..MaxCycles |-> MaxCapture],
     video_paths |-> [c \in 1..MaxCycles |-> "a.avi"]]

TrainingConfigs ==
    {[BaseConfig EXCEPT !.training_repetitions = r, !.imagination_cycles = 1,
                        !.n_shape = a, !.n_start_beep = b, !.n_end_beep = c,
                        !.n_blank = d] :
        r \in 0..MaxReps, a \in Frames, b \in Frames, c \in Frames,
        d \in Frames}

WaitConfigs ==
    {[BaseConfig EXCEPT !.imagination_cycles = 1,
                        !.n_train_to_meas_delay = a,
                        !.n_close_eyes_wait = b, !.n_starting_wait = c] :
        a \in Frames, b \in Frames, c \in Frames}

MeasurementConfigs ==
    {[BaseConfig EXCEPT !.n_start_beep = a, !.n_end_beep = b,
                        !.n_recording_delay = c, !.n_imagination = d,
                        !.n_inter_delay = e] :
        a \in Frames, b \in Frames, c \in Frames, d \in Frames, e \in Frames}

\* imagination periods longer than start beep and recording delay together
UnclampedConfigs ==
    {[BaseConfig EXCEPT !.n_start_beep = a, !.n_recording_delay = b,
                        !.n_imagination = a + b + r] :
        a \in 1..MaxFrames, b \in 1..MaxFrames, r \in 1..MaxFrames}

CycleConfigs ==
    {[BaseConfig EXCEPT !.imagination_cycles = c, !.cam_frames = cf] :
        c \in 0..MaxCycles, cf \in [1..MaxCycles -> 0..MaxCapture]}

\* the paths a video_path_factory may return
Paths == {"a.avi", "b.avi"}

PathConfigs ==
    {[BaseConfig EXCEPT !.imagination_cycles = c, !.video_paths = vp] :
        c \in 0..MaxCycles, vp \in [1..MaxCycles -> Paths]}

PostConfigs ==
    {[BaseConfig EXCEPT !.imagination_cycles = c, !.is_last_shape = a,
                        !.is_last_queue_item = b] :
        c \in {0, 1}, a \in BOOLEAN, b \in BOOLEAN}

Configs ==
    TrainingConfigs \cup WaitConfigs \cup MeasurementConfigs
        \cup UnclampedConfigs \cup CycleConfigs \cup PathConfigs
        \cup PostConfigs

NoStop == [tone |-> "none", age |-> 0, via |-> "none"]

(***************************************************************************)
(* MainWindow._estimate_per_trial_sec, in frames of the display: each      *)
(* duration by the frame count the engine derives from it, frame_dur by    *)
(* one frame.                                                              *)
(***************************************************************************)
\* "training_shape_duration + end_imagine_duration
\*  + training_blank_duration + frame_dur", per repetition
EstimatedRepetitionFrames == n_shape + n_end_beep + n_blank + 1

\* "imagination_duration + end_imagine_duration + 2 * frame_dur", per cycle
\* (the camera overhead is not display time)
EstimatedCycleFrames == n_imagination + n_end_beep + 2

\* TrialProtocol.__init__ for one configuration
Construct(c) ==
    /\ training_repetitions = c.training_repetitions
    /\ imagination_cycles = c.imagination_cycles
    /\ n_shape = c.n_shape
    /\ n_blank = c.n_blank
    /\ n_start_beep = c.n_start_beep
    /\ n_end_beep = c.n_end_beep
    /\ n_recording_delay = c.n_recording_delay
    /\ n_imagination = c.n_imagination
    /\ n_inter_delay = c.n_inter_delay
    /\ n_recording_frames =
           RecordingFrames(c.n_imagination, c.n_start_beep, c.n_recording_delay)
    /\ n_close_eyes_wait = c.n_close_eyes_wait
    /\ n_starting_wait = c.n_starting_wait
    /\ n_train_to_meas_delay = c.n_train_to_meas_delay
    /\ is_last_shape = c.is_last_shape
    /\ is_last_queue_item = c.is_last_queue_item
    /\ cam_frames = c.cam_frames
    /\ video_paths = c.video_paths
    /\ abort = FALSE
    /\ pc = "idle"
    /\ result = "none"
    /\ i = 0
    /\ f = 0
    /\ beep_stopped = FALSE
    /\ beep_counter = 0
    /\ beep_calls = <<>>
    /\ total_frames_recorded = 0
    /\ cycle_video_path = "none"
    /\ path_calls = <<>>
    /\ runs = 1
    /\ prev_result = "none"
    /\ phase = "none"
    /\ phase_log = <<>>
    /\ pending = <<>>
    /\ screen = "blank"
    /\ flips = 0
    /\ playing = {}
    /\ instructions = <<>>
    /\ recording = FALSE
    /\ rec_stops = 0
    /\ recordings = 0
    /\ events = <<>>
    /\ tone_age = [t \in Tones |-> 0]
    /\ last_stop = NoStop
    /\ abort_flips = 0
    /\ abort_in_rec = FALSE
    /\ abort_pc = "none"
    /\ abort_i = 0
    /\ abort_checks = 0
    /\ ops = <<>>

Threads == 1..LogThreads

\* EventLogger.__init__: the header row is written and flushed, the lock
\* is free, no call of log is in progress
LogInit ==
    /\ log_pc = [t \in Threads |-> "idle"]
    /\ log_calls = [t \in Threads |-> 0]
    /\ log_now = [t \in Threads |-> 0]
    /\ log_lock = 0
    /\ log_buf = <<>>
    /\ log_file = <<>>
    /\ log_clock = 1

\* WebcamCamera.__init__ and connect: nothing recorded, no record thread,
\* the grab thread running
WcInit ==
    /\ wc_recording = FALSE
    /\ wc_stop_event = FALSE
    /\ wc_frames = 0
    /\ wc_rpc = "none"
    /\ wc_writer = "none"
    /\ wc_written = 0
    /\ wc_gpc = "check"
    /\ wc_pc = "idle"
    /\ wc_ncalls = 0
    /\ wc_last = "none"
    /\ wc_ret = 0
    /\ wc_at_call = [active |-> FALSE, frames |-> 0]  \* camera at the last call
    /\ wc_raised = FALSE

\* an Optional[datetime] that is None
None == -1

\* self._total_estimated_sec
TotalEstimatedSec == 2

\* MainWindow after _init_end_time_tracking: the clock not started
EtInit ==
    /\ experiment_started = FALSE
    /\ expected_end = None
    /\ dead_time_start = None
    /\ et_now = 0
    /\ et_state = "IDLE"
    /\ et_left = None
    /\ et_prev_end = None
    /\ et_dead = None

\* the subject names entered; the empty string is a blank field
SubjectNames == {"", "ana", "ben", "cy"}

Range(q) == {q[k] : k \in DOMAIN q}

NoDuplicates(q) == \A j, k \in DOMAIN q : j /= k => q[j] /= q[k]

\* the histories add_subjects and save can have left in memory.json
Histories ==
    {h \in UNION {[1..n -> SubjectNames \ {""}] :
                      n \in 0..Cardinality(SubjectNames \ {""})} :
        NoDuplicates(h)}

NameLists == UNION {[1..n -> SubjectNames] : n \in 0..MaxNames}

NoCall == <<"-">>

\* AppMemory.__init__ with load: h is the history of the earlier sessions
MemInit(h) ==
    /\ subject_history = h
    /\ am_file = subject_history
    /\ am_names = NoCall
    /\ am_before = subject_history
    /\ am_repeat = FALSE

\* ControlPanel.__init__ and _build_ui: only the start button is not hidden
CpInit ==
    /\ cp_is_paused = FALSE
    /\ cp_text = "Pause"
    /\ cp_visible = {"start"}
    /\ cp_shown = "none"
    /\ cp_emitted = <<>>

SideInit == LogInit /\ WcInit /\ EtInit /\ MemInit(<<>>) /\ CpInit

\* the program as the sources have it: TrialPhase is that of enums.py
Init == /\ phase_members = TrialPhase
        /\ \E c \in Configs : Construct(c)
        /\ SideInit

\* the protocol with every tag it names defined
InitTags == /\ phase_members = TrialPhase \cup ProtocolPhaseTags
            /\ \E c \in Configs : Construct(c)
            /\ SideInit

(***************************************************************************)
(* Collaborators.  st is the record of what a tone or log call touches.    *)
(***************************************************************************)
TrainingPcs ==
    {"train_chk", "train_on", "shape_chk", "shape_body", "shape_exit",
     "tend_chk", "tend_body", "tend_stop", "blank_chk", "blank_body"}

MeasurementPcs ==
    {"cyc_chk", "cyc_on", "sbeep_chk", "sbeep_body", "sbeep_stop",
     "rdelay_chk", "rdelay_body", "rec_start", "rec_chk", "rec_body",
     "rec_stop", "ebeep_on", "ebeep_chk", "ebeep_body", "ebeep_stop",
     "inter_chk", "inter_body"}

\* the part of run that is executing
Part ==
    IF pc \in TrainingPcs THEN "training"
    ELSE IF pc \in MeasurementPcs THEN "measurement" ELSE "other"

\* now is the number of flips issued; part and n say where run is
Cur == [playing |-> playing, events |-> events, tone_age |-> tone_age,
        last_stop |-> last_stop, ops |-> ops, now |-> flips,
        part |-> Part, n |-> i + 1]

Commit(st) ==
    /\ playing' = st.playing
    /\ events' = st.events
    /\ tone_age' = st.tone_age
    /\ last_stop' = st.last_stop
    /\ ops' = st.ops

\* one call on a collaborator, noted with the flip count and the position
Op(st, op, arg) ==
    [st EXCEPT !.ops = Append(@, [op |-> op, arg |-> arg, at |-> st.now,
                                  part |-> st.part, n |-> st.n])]

\* AudioManager.play_instruction(name)
PlayInstruction(st, name) == Op(st, "play_instruction", name)

\* AudioManager.play(name)
PlayTone(st, name) ==
    [Op(st, "play", name) EXCEPT !.playing = @ \cup {name},
                                 !.tone_age[name] = 0]

\* AudioManager.stop(name); via says whether an on-flip callback made the call
StopTone(st, name, via) ==
    IF name \in st.playing
    THEN [Op(st, "stop", name) EXCEPT
              !.playing = @ \ {name},
              !.last_stop = [tone |-> name, age |-> st.tone_age[name],
                             via |-> via]]
    ELSE Op(st, "stop", name)

Ev(type, n, v) == [type |-> type, n |-> n, v |-> v]

\* EventLogger.log: one row appended
LogEvent(st, e) == [st EXCEPT !.events = Append(@, e)]

CbPlay(name) == [op |-> "play", arg |-> name, ev |-> Ev("", 0, 0)]
CbStop(name) == [op |-> "stop", arg |-> name, ev |-> Ev("", 0, 0)]
CbLog(type, n) == [op |-> "log", arg |-> "", ev |-> Ev(type, n, 0)]

RunCallback(st, cb) ==
    CASE cb.op = "play" -> PlayTone(st, cb.arg)
      [] cb.op = "stop" -> StopTone(st, cb.arg, "flip")
      [] OTHER -> LogEvent(st, cb.ev)

RECURSIVE RunCallbacks(_, _)
RunCallbacks(q, st) ==
    IF q = <<>> THEN st
    ELSE RunCallbacks(Tail(q), RunCallback(st, Head(q)))

Aged(st) ==
    [st EXCEPT !.now = @ + 1,
               !.tone_age =
        [t \in Tones |-> IF t \in st.playing THEN @[t] + 1 ELSE @[t]]]

\* the callbacks run registers with call_on_flip in the step at pc, in
\* registration order
Registered ==
    CASE pc = "train_on" ->
             <<CbPlay("start_imagine"),
               CbLog("TRAINING_START_BEEP", i + 1),
               CbLog("TRAINING_SHAPE_ON", i + 1)>>
      [] pc = "shape_body" /\ f = n_start_beep ->
             <<CbStop("start_imagine")>>
      [] pc = "shape_exit" ->
             <<CbPlay("end_imagine"), CbLog("TRAINING_END_BEEP", i + 1),
               CbLog("TRAINING_SHAPE_OFF", i + 1)>>
      [] pc = "tend_stop" -> <<CbStop("end_imagine")>>
      [] pc = "cyc_on" ->
             <<CbPlay("start_imagine"),
               CbLog("IMAGINATION_START_BEEP", i + 1)>>
      [] pc = "sbeep_stop" -> <<CbStop("start_imagine")>>
      [] pc = "ebeep_on" ->
             <<CbPlay("end_imagine"), CbLog("IMAGINATION_END_BEEP", i + 1)>>
      [] pc = "ebeep_stop" -> <<CbStop("end_imagine")>>
      [] OTHER -> <<>>

\* StimulusWindow.flip after the callbacks q were registered: the callbacks
\* run in registration order, then the back buffer is swapped in
Flip(st, q, shape_drawn) ==
    /\ Commit(RunCallbacks(pending \o q, Aged(st)))
    /\ pending' = <<>>
    /\ screen' = IF shape_drawn THEN "shape" ELSE "blank"
    /\ flips' = flips + 1
    /\ abort_flips' = IF abort THEN abort_flips + 1 ELSE abort_flips

NoFlip(st) ==
    /\ Commit(st)
    /\ UNCHANGED <<pending, screen, flips, abort_flips>>

\* CameraBackend.start_recording / stop_recording
StartRecording ==
    /\ recording' = TRUE
    /\ rec_stops' = 0
    /\ recordings' = recordings + 1

StopRecording ==
    /\ recording' = FALSE
    /\ rec_stops' = rec_stops + 1
    /\ UNCHANGED recordings

\* _phase(TrialPhase.<tag>, ...)
Phase(tag) ==
    /\ Defined(tag)
    /\ phase' = tag
    /\ phase_log' = Append(phase_log, tag)

\* total_beeps
TotalBeeps == (training_repetitions * 2) + (imagination_cycles * 2)

\* _beep() counting two beeps at once
BeepSkipsOne ==
    /\ beep_counter' = beep_counter + 2
    /\ beep_calls' = Append(beep_calls, [current |-> beep_counter + 2,
                                         total |-> TotalBeeps,
                                         at |-> flips'])

\* _beep(), called after a flip: the callback gets the counter and the total
Beep ==
    /\ beep_counter' = beep_counter + 1
    /\ beep_calls' = Append(beep_calls, [current |-> beep_counter + 1,
                                         total |-> TotalBeeps,
                                         at |-> flips'])

ReturnFalse ==
    /\ pc' = "done"
    /\ result' = "false"
    /\ abort_checks' = abort_checks + 1

\* run zeroing the inter-cycle delay of the engine it runs on
RunKeepsDropsInterDelay ==
    /\ n_inter_delay' = 0
    /\ UNCHANGED <<training_repetitions, imagination_cycles, n_shape,
                   n_blank, n_start_beep, n_end_beep, n_recording_delay,
                   n_imagination, n_recording_frames, n_close_eyes_wait,
                   n_starting_wait, n_train_to_meas_delay, is_last_shape,
                   is_last_queue_item, cam_frames, video_paths,
                   phase_members, sidevars, runvars,
                   abort, abort_in_rec, abort_pc, abort_i>>

\* what no step of run touches
RunKeeps ==
    UNCHANGED <<cfgvars, sidevars, runvars, abort, abort_in_rec,
                abort_pc, abort_i>>

(***************************************************************************)
(* The two shapes most steps of run have.                                  *)
(***************************************************************************)
\* AbortCheck returning without stopping the tone that is sounding
AbortCheckNoStop(here, next, tone) ==
    /\ pc = here
    /\ NoFlip(Cur)
    /\ IF abort
       THEN ReturnFalse
       ELSE pc' = next /\ UNCHANGED <<result, abort_checks>>
    /\ UNCHANGED <<i, f, beep_stopped, beepvars, total_frames_recorded,
                   pathvars, phasevars, instructions, camvars>>
    /\ RunKeeps

\* AbortCheck writing a log row before it returns
AbortCheckLogsRow(here, next, tone) ==
    /\ pc = here
    /\ IF abort
       THEN /\ NoFlip(LogEvent(IF tone \in Tones
                               THEN StopTone(Cur, tone, "direct") ELSE Cur,
                               Ev("TRIAL_ABORTED", 0, 0)))
            /\ ReturnFalse
       ELSE /\ NoFlip(Cur)
            /\ pc' = next
            /\ UNCHANGED <<result, abort_checks>>
    /\ UNCHANGED <<i, f, beep_stopped, beepvars, total_frames_recorded,
                   pathvars, phasevars, instructions, camvars>>
    /\ RunKeeps

\* "if self._abort: [self._audio.stop(tone);] return False"
AbortCheck(here, next, tone) ==
    /\ pc = here
    /\ IF abort
       THEN /\ NoFlip(IF tone \in Tones THEN StopTone(Cur, tone, "direct")
                      ELSE Cur)
            /\ ReturnFalse
       ELSE /\ NoFlip(Cur)
            /\ pc' = next
            /\ UNCHANGED <<result, abort_checks>>
    /\ UNCHANGED <<i, f, beep_stopped, beepvars, total_frames_recorded,
                   pathvars, phasevars, instructions, camvars>>
    /\ RunKeeps

\* "self._win.flip()" as the body of "for _ in range(count)"
FrameWait(here, count, chk, exit, iNext) ==
    /\ pc = here
    /\ Flip(Cur, <<>>, FALSE)
    /\ f' = f + 1
    /\ IF f + 1 < count
       THEN pc' = chk /\ i' = i
       ELSE pc' = exit /\ i' = iNext
    /\ UNCHANGED <<result, abort_checks, beep_stopped, beepvars,
                   total_frames_recorded, pathvars,
                   phasevars, instructions, camvars>>
    /\ RunKeeps

(***************************************************************************)
(* request_abort(), from any thread at any time.                           *)
(***************************************************************************)
InRun == pc \notin {"idle", "done"}

RequestAbort ==
    /\ abort' = TRUE
    /\ IF InRun /\ ~abort
       THEN abort_pc' = pc /\ abort_i' = i
       ELSE UNCHANGED <<abort_pc, abort_i>>
    /\ abort_in_rec' = (abort_in_rec \/ (InRun /\ recording))
    /\ UNCHANGED <<cfgvars, sidevars, runvars, pc, result, i, f, beep_stopped,
                   beepvars,
                   total_frames_recorded, pathvars,
                   phasevars, dispvars, audiovars,
                   camvars, events, tone_age, last_stop, abort_flips,
                   abort_checks, ops>>

(***************************************************************************)
(* run(): entry and training phase.                                        *)
(***************************************************************************)
AfterTraining ==
    IF n_train_to_meas_delay > 0 THEN "delay_enter" ELSE "instr_chk"

\* the training loop running one repetition more
TrainLoopOneMore(k) ==
    IF k <= training_repetitions THEN "train_chk" ELSE AfterTraining

\* run entered with the flag left as it was found
RunEnterKeepsFlag ==
    /\ pc = "idle"
    /\ beep_counter' = 0
    /\ beep_calls' = <<>>
    /\ NoFlip(LogEvent(Cur, Ev("TRIAL_START", 0, 0)))
    /\ i' = 0
    /\ pc' = IF 0 < training_repetitions THEN "train_chk" ELSE AfterTraining
    /\ UNCHANGED <<cfgvars, sidevars, runvars, abort, result, f,
                   beep_stopped, total_frames_recorded, pathvars,
                   phasevars, instructions, camvars, abort_in_rec, abort_pc,
                   abort_i, abort_checks>>

\* where the training loop goes with its index at k
TrainLoop(k) ==
    IF k < training_repetitions THEN "train_chk" ELSE AfterTraining

RunEnter ==
    /\ pc = "idle"
    /\ abort' = FALSE
    /\ beep_counter' = 0
    /\ beep_calls' = <<>>
    /\ NoFlip(LogEvent(Cur, Ev("TRIAL_START", 0, 0)))
    /\ i' = 0
    /\ pc' = TrainLoop(0)
    /\ UNCHANGED <<cfgvars, sidevars, runvars, result, f, beep_stopped,
                   total_frames_recorded, pathvars,
                   phasevars, instructions, camvars, abort_in_rec, abort_pc,
                   abort_i, abort_checks>>

TrainCheck == AbortCheck("train_chk", "train_on", "none")

\* run once more on the same engine after a run that returned: the flag
\* and the collaborators are as the run left them; the locals of run and
\* what the properties note of a run start afresh
RunAgain ==
    /\ pc = "done"
    /\ result \in {"true", "false"}
    /\ runs < MaxRuns
    /\ runs' = runs + 1
    /\ prev_result' = result
    /\ pc' = "idle"
    /\ result' = "none"
    /\ i' = 0
    /\ f' = 0
    /\ beep_stopped' = FALSE
    /\ beep_counter' = 0
    /\ beep_calls' = <<>>
    /\ total_frames_recorded' = 0
    /\ cycle_video_path' = "none"
    /\ path_calls' = <<>>
    /\ phase' = "none"
    /\ phase_log' = <<>>
    /\ flips' = 0
    /\ instructions' = <<>>
    /\ rec_stops' = 0
    /\ recordings' = 0
    /\ events' = <<>>
    /\ tone_age' = [t \in Tones |-> 0]
    /\ last_stop' = NoStop
    /\ abort_flips' = 0
    /\ abort_in_rec' = FALSE
    /\ abort_pc' = "none"
    /\ abort_i' = 0
    /\ abort_checks' = 0
    /\ ops' = <<>>
    /\ UNCHANGED <<cfgvars, sidevars, abort, pending, screen, playing,
                   recording>>

\* the start beep scheduled on a flip for which the shape was not drawn
TrainShapeOnNoDraw ==
    /\ pc = "train_on"
    /\ Phase("TRAINING_SHAPE")
    /\ Flip(Cur, <<CbPlay("start_imagine"),
                   CbLog("TRAINING_START_BEEP", i + 1),
                   CbLog("TRAINING_SHAPE_ON", i + 1)>>, FALSE)
    /\ Beep
    /\ beep_stopped' = FALSE
    /\ f' = 1
    /\ pc' = IF 1 < n_shape THEN "shape_chk" ELSE "shape_exit"
    /\ UNCHANGED <<result, abort_checks, i, total_frames_recorded, pathvars,
                   instructions, camvars>>
    /\ RunKeeps

TrainShapeOn ==
    /\ pc = "train_on"
    /\ Phase("TRAINING_SHAPE")
    /\ Flip(Cur, Registered, TRUE)
    /\ Beep
    /\ beep_stopped' = FALSE
    /\ f' = 1
    /\ pc' = IF 1 < n_shape THEN "shape_chk" ELSE "shape_exit"
    /\ UNCHANGED <<result, abort_checks, i, total_frames_recorded, pathvars,
                   instructions, camvars>>
    /\ RunKeeps

ShapeCheck ==
    /\ pc = "shape_chk"
    /\ IF abort
       THEN /\ NoFlip(IF ~beep_stopped
                      THEN StopTone(Cur, "start_imagine", "direct") ELSE Cur)
            /\ ReturnFalse
       ELSE /\ NoFlip(Cur)
            /\ pc' = "shape_body"
            /\ UNCHANGED <<result, abort_checks>>
    /\ UNCHANGED <<i, f, beep_stopped, beepvars, total_frames_recorded,
                   pathvars, phasevars, instructions, camvars>>
    /\ RunKeeps

ShapeHold ==
    /\ pc = "shape_body"
    /\ Flip(Cur, Registered, TRUE)
    /\ beep_stopped' = (beep_stopped \/ f = n_start_beep)
    /\ f' = f + 1
    /\ pc' = IF f + 1 < n_shape THEN "shape_chk" ELSE "shape_exit"
    /\ UNCHANGED <<result, abort_checks, i, beepvars,
                   total_frames_recorded, pathvars,
                   phasevars, instructions, camvars>>
    /\ RunKeeps

\* the end beep scheduled without the safety stop of the start beep
ShapeExitNoSafetyStop ==
    /\ pc = "shape_exit"
    /\ Phase("TRAINING_BLANK")
    /\ Flip(Cur,
            <<CbPlay("end_imagine"), CbLog("TRAINING_END_BEEP", i + 1),
              CbLog("TRAINING_SHAPE_OFF", i + 1)>>, FALSE)
    /\ Beep
    /\ f' = 0
    /\ pc' = IF 0 < n_end_beep - 1 THEN "tend_chk" ELSE "tend_stop"
    /\ UNCHANGED <<result, abort_checks, i, beep_stopped,
                   total_frames_recorded, pathvars, instructions, camvars>>
    /\ RunKeeps

ShapeExit ==
    /\ pc = "shape_exit"
    /\ Phase("TRAINING_BLANK")
    /\ Flip(IF ~beep_stopped THEN StopTone(Cur, "start_imagine", "direct")
            ELSE Cur, Registered, FALSE)
    /\ Beep
    /\ f' = 0
    /\ pc' = IF 0 < n_end_beep - 1 THEN "tend_chk" ELSE "tend_stop"
    /\ UNCHANGED <<result, abort_checks, i, beep_stopped,
                   total_frames_recorded, pathvars, instructions, camvars>>
    /\ RunKeeps

TrainEndCheck == AbortCheck("tend_chk", "tend_body", "end_imagine")

TrainEndHold ==
    FrameWait("tend_body", n_end_beep - 1, "tend_chk", "tend_stop", i)

\* the stop of the end beep registered behind the flip instead of before it
TrainEndStopRegistersAfterFlip ==
    /\ pc = "tend_stop"
    /\ Commit(RunCallbacks(pending, Aged(Cur)))
    /\ pending' = Registered
    /\ screen' = "blank"
    /\ flips' = flips + 1
    /\ abort_flips' = IF abort THEN abort_flips + 1 ELSE abort_flips
    /\ Phase("TRAINING_BLANK")
    /\ f' = 0
    /\ IF 0 < n_blank - 1
       THEN pc' = "blank_chk" /\ i' = i
       ELSE pc' = TrainLoop(i + 1) /\ i' = i + 1
    /\ UNCHANGED <<result, abort_checks, beep_stopped, beepvars,
                   total_frames_recorded, pathvars, instructions, camvars>>
    /\ RunKeeps

TrainEndStop ==
    /\ pc = "tend_stop"
    /\ Flip(Cur, Registered, FALSE)
    /\ Phase("TRAINING_BLANK")
    /\ f' = 0
    /\ IF 0 < n_blank - 1
       THEN pc' = "blank_chk" /\ i' = i
       ELSE pc' = TrainLoop(i + 1) /\ i' = i + 1
    /\ UNCHANGED <<result, abort_checks, beep_stopped, beepvars,
                   total_frames_recorded, pathvars, instructions, camvars>>
    /\ RunKeeps

\* the blank gap held without looking at the flag
BlankCheckMissing ==
    /\ pc = "blank_chk"
    /\ pc' = "blank_body"
    /\ NoFlip(Cur)
    /\ UNCHANGED <<result, abort_checks, i, f, beep_stopped, beepvars,
                   total_frames_recorded, pathvars,
                   phasevars, instructions, camvars>>
    /\ RunKeeps

BlankCheck == AbortCheck("blank_chk", "blank_body", "none")

BlankHold ==
    FrameWait("blank_body", n_blank - 1, "blank_chk", TrainLoop(i + 1), i + 1)

(***************************************************************************)
(* run(): optional delay and instruction sequence.                         *)
(***************************************************************************)
DelayEnter ==
    /\ pc = "delay_enter"
    /\ IF abort
       THEN /\ ReturnFalse
            /\ UNCHANGED <<phasevars, f>>
       ELSE /\ Phase("INTER_TRIAL")
            /\ f' = 0
            /\ pc' = "delay_chk"
            /\ UNCHANGED <<result, abort_checks>>
    /\ NoFlip(Cur)
    /\ UNCHANGED <<i, beep_stopped, beepvars, total_frames_recorded, pathvars,
                   instructions, camvars>>
    /\ RunKeeps

DelayCheck == AbortCheck("delay_chk", "delay_body", "none")

DelayHold ==
    FrameWait("delay_body", n_train_to_meas_delay, "delay_chk", "instr_chk", i)

InstrCheck == AbortCheck("instr_chk", "close_eyes", "none")

CloseEyes ==
    /\ pc = "close_eyes"
    /\ Defined("INSTRUCTION_CLOSE_EYES")
    /\ instructions' = Append(instructions, "close_your_eyes")
    /\ NoFlip(LogEvent(PlayInstruction(Cur, "close_your_eyes"),
                        Ev("INSTRUCTION_CLOSE_EYES", 0, 0)))
    /\ Phase("INSTRUCTION_WAIT")
    /\ f' = 0
    /\ pc' = IF 0 < n_close_eyes_wait THEN "cwait_chk" ELSE "starting"
    /\ UNCHANGED <<result, abort_checks, i, beep_stopped, beepvars,
                   total_frames_recorded, pathvars, camvars>>
    /\ RunKeeps

CloseWaitCheck == AbortCheck("cwait_chk", "cwait_body", "none")

\* the wait after close_your_eyes one flip short
CloseWaitHoldOneShort ==
    FrameWait("cwait_body", n_close_eyes_wait - 1, "cwait_chk", "starting",
              i)

CloseWaitHold ==
    FrameWait("cwait_body", n_close_eyes_wait, "cwait_chk", "starting", i)

Starting ==
    /\ pc = "starting"
    /\ Defined("INSTRUCTION_STARTING")
    /\ instructions' = Append(instructions, "starting")
    /\ NoFlip(LogEvent(PlayInstruction(Cur, "starting"),
                        Ev("INSTRUCTION_STARTING", 0, 0)))
    /\ Phase("INSTRUCTION_READY")
    /\ f' = 0
    /\ pc' = IF 0 < n_starting_wait THEN "swait_chk" ELSE "meas_enter"
    /\ UNCHANGED <<result, abort_checks, i, beep_stopped, beepvars,
                   total_frames_recorded, pathvars, camvars>>
    /\ RunKeeps

StartWaitCheck == AbortCheck("swait_chk", "swait_body", "none")

StartWaitHold ==
    FrameWait("swait_body", n_starting_wait, "swait_chk", "meas_enter", i)

(***************************************************************************)
(* run(): measurement phase.                                               *)
(***************************************************************************)
\* where the cycle loop goes with its index at k
CycleLoop(k) == IF k < imagination_cycles THEN "cyc_chk" ELSE "post"

\* the measurement phase entered without looking at the flag
MeasEnterNoCheck ==
    /\ pc = "meas_enter"
    /\ total_frames_recorded' = 0
    /\ i' = 0
    /\ pc' = CycleLoop(0)
    /\ NoFlip(Cur)
    /\ UNCHANGED <<result, abort_checks, f, beep_stopped, beepvars,
                   pathvars, phasevars, instructions, camvars>>
    /\ RunKeeps

MeasEnter ==
    /\ pc = "meas_enter"
    /\ IF abort
       THEN /\ ReturnFalse
            /\ UNCHANGED <<total_frames_recorded, i>>
       ELSE /\ total_frames_recorded' = 0
            /\ i' = 0
            /\ pc' = CycleLoop(0)
            /\ UNCHANGED <<result, abort_checks>>
    /\ NoFlip(Cur)
    /\ UNCHANGED <<f, beep_stopped, beepvars, pathvars, phasevars,
                   instructions, camvars>>
    /\ RunKeeps

CycleCheck == AbortCheck("cyc_chk", "cyc_on", "none")

\* the cycle number passed on with the loop index left at 0-based
CycleNumZeroBased(k) == k

\* "cycle_num = i + 1"
CycleNum(k) == k + 1

\* what the factory of this run returns when called with cycle_num
VideoPath(cycle_num) ==
    IF cycle_num \in DOMAIN video_paths THEN video_paths[cycle_num]
    ELSE "a.avi"

\* "cycle_video_path = video_path_factory(cycle_num)"
VideoPathFactory(cycle_num) ==
    /\ cycle_video_path' = VideoPath(cycle_num)
    /\ path_calls' = Append(path_calls,
                            [call |-> "video_path_factory", n |-> i + 1,
                             cycle |-> cycle_num,
                             path |-> VideoPath(cycle_num)])

\* the path argument of "self._camera.start_recording(cycle_video_path, fps)"
PassPath(path) ==
    /\ path_calls' = Append(path_calls,
                            [call |-> "start_recording", n |-> i + 1,
                             cycle |-> 0, path |-> path])
    /\ UNCHANGED cycle_video_path

\* TrialPhase.MEASUREMENT_START_BEEP is evaluated right after the path of
\* the cycle was made, before anything else is done
PhaseError ==
    /\ pc = "cyc_on"
    /\ VideoPathFactory(CycleNum(i))
    /\ ~Defined("MEASUREMENT_START_BEEP")
    /\ pc' = "done"
    /\ result' = "raised"
    /\ UNCHANGED <<cfgvars, sidevars, runvars, abort, i, f, beep_stopped,
                   beepvars,
                   total_frames_recorded, phasevars, dispvars, audiovars,
                   camvars, events, obsvars>>

CycleStartBeep ==
    /\ pc = "cyc_on"
    /\ VideoPathFactory(CycleNum(i))
    /\ Phase("MEASUREMENT_START_BEEP")
    /\ Flip(Cur, Registered, FALSE)
    /\ Beep
    /\ f' = 0
    /\ pc' = IF 0 < n_start_beep - 1 THEN "sbeep_chk" ELSE "sbeep_stop"
    /\ UNCHANGED <<result, abort_checks, i, beep_stopped,
                   total_frames_recorded, instructions, camvars>>
    /\ RunKeeps

StartBeepCheck == AbortCheck("sbeep_chk", "sbeep_body", "start_imagine")

StartBeepHold ==
    FrameWait("sbeep_body", n_start_beep - 1, "sbeep_chk", "sbeep_stop", i)

\* the flip after the start beep issued without the stop callback
StartBeepStopNoCallback ==
    /\ pc = "sbeep_stop"
    /\ Flip(Cur, <<>>, FALSE)
    /\ Phase("MEASUREMENT_RECORDING_DELAY")
    /\ f' = 0
    /\ pc' = IF 0 < n_recording_delay - 1 THEN "rdelay_chk" ELSE "rec_start"
    /\ UNCHANGED <<result, abort_checks, i, beep_stopped, beepvars,
                   total_frames_recorded, pathvars, instructions, camvars>>
    /\ RunKeeps

StartBeepStop ==
    /\ pc = "sbeep_stop"
    /\ Flip(Cur, Registered, FALSE)
    /\ Phase("MEASUREMENT_RECORDING_DELAY")
    /\ f' = 0
    /\ pc' = IF 0 < n_recording_delay - 1 THEN "rdelay_chk" ELSE "rec_start"
    /\ UNCHANGED <<result, abort_checks, i, beep_stopped, beepvars,
                   total_frames_recorded, pathvars, instructions, camvars>>
    /\ RunKeeps

RecDelayCheck == AbortCheck("rdelay_chk", "rdelay_body", "none")

\* the recording delay held for n_recording_delay flips after the stop flip
RecDelayHoldFullCount ==
    FrameWait("rdelay_body", n_recording_delay, "rdelay_chk", "rec_start", i)

RecDelayHold ==
    FrameWait("rdelay_body", n_recording_delay - 1, "rdelay_chk",
              "rec_start", i)

RecStart ==
    /\ pc = "rec_start"
    /\ StartRecording
    /\ PassPath(cycle_video_path)
    /\ NoFlip(LogEvent(Op(Cur, "start_recording", ""),
                        Ev("RECORDING_START", i + 1, 0)))
    /\ Phase("MEASUREMENT_IMAGINING")
    /\ f' = 0
    /\ pc' = IF 0 < n_recording_frames THEN "rec_chk" ELSE "rec_stop"
    /\ UNCHANGED <<result, abort_checks, i, beep_stopped, beepvars,
                   total_frames_recorded, instructions>>
    /\ RunKeeps

\* the recording wait left on abort with the camera still recording
RecCheckNoStop ==
    /\ pc = "rec_chk"
    /\ IF abort
       THEN ReturnFalse
       ELSE pc' = "rec_body" /\ UNCHANGED <<result, abort_checks>>
    /\ NoFlip(Cur)
    /\ UNCHANGED <<i, f, beep_stopped, beepvars, total_frames_recorded,
                   pathvars, phasevars, instructions, camvars>>
    /\ RunKeeps

\* "if self._abort: self._camera.stop_recording(); return False"
RecCheck ==
    /\ pc = "rec_chk"
    /\ IF abort
       THEN /\ StopRecording
            /\ NoFlip(Op(Cur, "stop_recording", ""))
            /\ ReturnFalse
       ELSE /\ pc' = "rec_body"
            /\ NoFlip(Cur)
            /\ UNCHANGED <<result, abort_checks, camvars>>
    /\ UNCHANGED <<i, f, beep_stopped, beepvars, total_frames_recorded,
                   pathvars, phasevars, instructions>>
    /\ RunKeeps

\* the recording wait held for n_imagination frames
RecHoldWholeImagination ==
    /\ pc = "rec_body"
    /\ Flip(Cur, <<>>, FALSE)
    /\ f' = f + 1
    /\ pc' = IF f + 1 < n_imagination THEN "rec_chk" ELSE "rec_stop"
    /\ UNCHANGED <<result, abort_checks, i, beep_stopped, beepvars,
                   total_frames_recorded, pathvars,
                   phasevars, instructions, camvars>>
    /\ RunKeeps

RecHold ==
    /\ pc = "rec_body"
    /\ Flip(Cur, <<>>, FALSE)
    /\ f' = f + 1
    /\ pc' = IF f + 1 < n_recording_frames THEN "rec_chk" ELSE "rec_stop"
    /\ UNCHANGED <<result, abort_checks, i, beep_stopped, beepvars,
                   total_frames_recorded, pathvars,
                   phasevars, instructions, camvars>>
    /\ RunKeeps

\* the total overwritten with the count of the last recording
AddFramesKeepsLast(total, frames) == frames

\* "total_frames_recorded += frames"
AddFrames(total, frames) == total + frames

\* the recording stopped without its RECORDING_STOP row
RecStopNoLog ==
    /\ pc = "rec_stop"
    /\ StopRecording
    /\ total_frames_recorded' =
           AddFrames(total_frames_recorded, cam_frames[i + 1])
    /\ NoFlip(Op(Cur, "stop_recording", ""))
    /\ pc' = "ebeep_on"
    /\ UNCHANGED <<result, abort_checks, i, f, beep_stopped, beepvars,
                   pathvars, phasevars, instructions>>
    /\ RunKeeps

RecStop ==
    /\ pc = "rec_stop"
    /\ StopRecording
    /\ total_frames_recorded' =
           AddFrames(total_frames_recorded, cam_frames[i + 1])
    /\ NoFlip(LogEvent(Op(Cur, "stop_recording", ""),
                        Ev("RECORDING_STOP", i + 1, cam_frames[i + 1])))
    /\ pc' = "ebeep_on"
    /\ UNCHANGED <<result, abort_checks, i, f, beep_stopped, beepvars,
                   pathvars, phasevars, instructions>>
    /\ RunKeeps

EndBeepOn ==
    /\ pc = "ebeep_on"
    /\ Phase("MEASUREMENT_END_BEEP")
    /\ Flip(Cur, Registered, FALSE)
    /\ Beep
    /\ f' = 0
    /\ pc' = IF 0 < n_end_beep - 1 THEN "ebeep_chk" ELSE "ebeep_stop"
    /\ UNCHANGED <<result, abort_checks, i, beep_stopped,
                   total_frames_recorded, pathvars, instructions, camvars>>
    /\ RunKeeps

EndBeepCheck == AbortCheck("ebeep_chk", "ebeep_body", "end_imagine")

\* the end beep held for n_end_beep frames before its stop flip
EndBeepHoldFullCount ==
    FrameWait("ebeep_body", n_end_beep, "ebeep_chk", "ebeep_stop", i)

EndBeepHold ==
    FrameWait("ebeep_body", n_end_beep - 1, "ebeep_chk", "ebeep_stop", i)

\* the inter-imagination delay held after the last cycle too
EndBeepStopAlwaysDelay ==
    /\ pc = "ebeep_stop"
    /\ Flip(Cur, <<CbStop("end_imagine")>>, FALSE)
    /\ f' = 0
    /\ Phase("MEASUREMENT_INTER_DELAY")
    /\ IF 0 < n_inter_delay
       THEN pc' = "inter_chk" /\ i' = i
       ELSE pc' = CycleLoop(i + 1) /\ i' = i + 1
    /\ UNCHANGED <<result, abort_checks, beep_stopped, beepvars,
                   total_frames_recorded, pathvars, instructions, camvars>>
    /\ RunKeeps

EndBeepStop ==
    /\ pc = "ebeep_stop"
    /\ Flip(Cur, Registered, FALSE)
    /\ f' = 0
    /\ IF i < imagination_cycles - 1
       THEN /\ Phase("MEASUREMENT_INTER_DELAY")
            /\ IF 0 < n_inter_delay
               THEN pc' = "inter_chk" /\ i' = i
               ELSE pc' = CycleLoop(i + 1) /\ i' = i + 1
       ELSE /\ pc' = CycleLoop(i + 1)
            /\ i' = i + 1
            /\ UNCHANGED phasevars
    /\ UNCHANGED <<result, abort_checks, beep_stopped, beepvars,
                   total_frames_recorded, pathvars, instructions, camvars>>
    /\ RunKeeps

InterCheck == AbortCheck("inter_chk", "inter_body", "none")

InterHold ==
    FrameWait("inter_body", n_inter_delay, "inter_chk", CycleLoop(i + 1),
              i + 1)

(***************************************************************************)
(* run(): post-measurement instruction and return.                         *)
(***************************************************************************)
\* the cue chosen by looking at is_last_queue_item first
PostInstructionQueueFirst ==
    IF is_last_queue_item THEN "experiment_completed"
    ELSE IF is_last_shape THEN "next_participant_please"
    ELSE "open_your_eyes"

PostInstruction ==
    IF ~is_last_shape THEN "open_your_eyes"
    ELSE IF is_last_queue_item THEN "experiment_completed"
    ELSE "next_participant_please"

PostEvent ==
    IF ~is_last_shape THEN "INSTRUCTION_OPEN_EYES"
    ELSE IF is_last_queue_item THEN "INSTRUCTION_COMPLETED"
    ELSE "INSTRUCTION_NEXT_PARTICIPANT"

\* the cue is played and logged; precise_sleep then runs until TrialEnd
Post ==
    /\ pc = "post"
    /\ Phase("INSTRUCTION_POST")
    /\ instructions' = Append(instructions, PostInstruction)
    /\ NoFlip(LogEvent(PlayInstruction(Cur, PostInstruction),
                        Ev(PostEvent, 0, 0)))
    /\ pc' = "trial_end"
    /\ UNCHANGED <<result, abort_checks, i, f, beep_stopped, beepvars,
                   total_frames_recorded, pathvars, camvars>>
    /\ RunKeeps

\* run returning True without its TRIAL_END row
TrialEndNoLog ==
    /\ pc = "trial_end"
    /\ NoFlip(Cur)
    /\ pc' = "done"
    /\ result' = "true"
    /\ UNCHANGED <<abort_checks, i, f, beep_stopped, beepvars,
                   total_frames_recorded, pathvars,
                   phasevars, instructions, camvars>>
    /\ RunKeeps

TrialEnd ==
    /\ pc = "trial_end"
    /\ NoFlip(LogEvent(Cur, Ev("TRIAL_END", imagination_cycles,
                               total_frames_recorded)))
    /\ pc' = "done"
    /\ result' = "true"
    /\ UNCHANGED <<abort_checks, i, f, beep_stopped, beepvars,
                   total_frames_recorded, pathvars,
                   phasevars, instructions, camvars>>
    /\ RunKeeps

(***************************************************************************)
(* A collaborator call fails: run has no try/finally, the exception        *)
(* leaves run at once.                                                     *)
(***************************************************************************)
CallPcs ==
    {"train_on", "shape_body", "shape_exit", "tend_body", "tend_stop",
     "blank_body", "delay_body", "close_eyes", "cwait_body", "starting",
     "swait_body", "cyc_on", "sbeep_body", "sbeep_stop", "rdelay_body",
     "rec_start", "rec_body", "rec_stop", "ebeep_on", "ebeep_body",
     "ebeep_stop", "inter_body", "post", "trial_end"}

\* the call that fails may be any call of the step: the callbacks registered
\* before it stay in the display's queue, the flip that would run them is
\* never reached
Raise ==
    /\ pc \in CallPcs
    /\ pc' = "done"
    /\ result' = "raised"
    /\ \E k \in 0..Len(Registered) :
           pending' = pending \o SubSeq(Registered, 1, k)
    /\ UNCHANGED <<cfgvars, sidevars, runvars, abort, i, f, beep_stopped,
                   beepvars, total_frames_recorded, pathvars,
                   phasevars, screen, flips, audiovars,
                   camvars, events, obsvars>>

(***************************************************************************)
(* Specifications.                                                         *)
(***************************************************************************)
TrainingSteps ==
    \/ TrainCheck \/ TrainShapeOn \/ ShapeCheck \/ ShapeHold \/ ShapeExit
    \/ TrainEndCheck \/ TrainEndHold \/ TrainEndStop
    \/ BlankCheck \/ BlankHold

InstructionSteps ==
    \/ DelayEnter \/ DelayCheck \/ DelayHold
    \/ InstrCheck \/ CloseEyes \/ CloseWaitCheck \/ CloseWaitHold
    \/ Starting \/ StartWaitCheck \/ StartWaitHold

MeasurementSteps ==
    \/ CycleStartBeep \/ StartBeepCheck \/ StartBeepHold \/ StartBeepStop
    \/ RecDelayCheck \/ RecDelayHold \/ RecStart \/ RecCheck \/ RecHold
    \/ RecStop \/ EndBeepOn \/ EndBeepCheck \/ EndBeepHold \/ EndBeepStop
    \/ InterCheck \/ InterHold

\* the program of src/: the first measurement cycle ends in PhaseError
Next ==
    \/ RequestAbort \/ RunEnter \/ TrainingSteps \/ InstructionSteps
    \/ MeasEnter \/ CycleCheck \/ PhaseError \/ Post \/ TrialEnd \/ Raise

Spec == Init /\ [][Next]_vars

\* the protocol with the tags it names defined
NextTags ==
    \/ RequestAbort \/ RunEnter \/ TrainingSteps \/ InstructionSteps
    \/ MeasEnter \/ CycleCheck \/ MeasurementSteps \/ Post \/ TrialEnd
    \/ Raise

SpecTags == InitTags /\ [][NextTags]_vars

\* every wait of run at its longest, with the delay configured
LongConfig ==
    [BaseConfig EXCEPT !.training_repetitions = MaxReps,
                       !.n_shape = MaxFrames + 1, !.n_blank = MaxFrames,
                       !.n_start_beep = MaxFrames, !.n_end_beep = MaxFrames,
                       !.n_recording_delay = MaxFrames,
                       !.n_imagination = 3 * MaxFrames,
                       !.n_inter_delay = MaxFrames,
                       !.n_close_eyes_wait = MaxFrames,
                       !.n_starting_wait = MaxFrames,
                       !.n_train_to_meas_delay = MaxFrames]

RunConfigs ==
    {LongConfig, BaseConfig, [BaseConfig EXCEPT !.imagination_cycles = 0]}

\* one engine running trial after trial, with the tags it names defined
InitRuns == /\ phase_members = TrialPhase \cup ProtocolPhaseTags
            /\ \E c \in RunConfigs : Construct(c)
            /\ SideInit

NextRuns == NextTags \/ RunAgain

SpecRuns == InitRuns /\ [][NextRuns]_vars

(***************************************************************************)
(* EventLogger.log (src/data/event_logger.py) called by several threads.   *)
(* A call reads the clock, takes the lock, writes its row, flushes and     *)
(* releases the lock.  writerow is not taken to be atomic by itself: the   *)
(* row reaches the file buffer as its fields and then its line terminator. *)
(***************************************************************************)
Chunk(t, part) ==
    [thread |-> t, call |-> log_calls[t], ts |-> log_now[t], part |-> part]

\* "now = time.perf_counter()": the clock never runs backwards; two readings
\* may be equal
LogCall(t) ==
    /\ log_pc[t] = "idle"
    /\ log_calls[t] < LogCalls
    /\ log_calls' = [log_calls EXCEPT ![t] = @ + 1]
    /\ \E tick \in {0, 1} :
           /\ log_now' = [log_now EXCEPT ![t] = log_clock + tick]
           /\ log_clock' = log_clock + tick
    /\ log_pc' = [log_pc EXCEPT ![t] = "acquire"]
    /\ UNCHANGED <<log_lock, log_buf, log_file>>
    /\ UNCHANGED notlog

\* the critical section entered without taking the lock
LogAcquireNoLock(t) ==
    /\ log_pc[t] = "acquire"
    /\ log_pc' = [log_pc EXCEPT ![t] = "fields"]
    /\ UNCHANGED <<log_calls, log_now, log_lock, log_buf, log_file,
                   log_clock>>
    /\ UNCHANGED notlog

\* "with self._lock:" entry
LogAcquire(t) ==
    /\ log_pc[t] = "acquire"
    /\ log_lock = 0
    /\ log_lock' = t
    /\ log_pc' = [log_pc EXCEPT ![t] = "fields"]
    /\ UNCHANGED <<log_calls, log_now, log_buf, log_file, log_clock>>
    /\ UNCHANGED notlog

\* self._writer.writerow([...]): the fields
LogWriteFields(t) ==
    /\ log_pc[t] = "fields"
    /\ log_buf' = Append(log_buf, Chunk(t, "fields"))
    /\ log_pc' = [log_pc EXCEPT ![t] = "eol"]
    /\ UNCHANGED <<log_calls, log_now, log_lock, log_file, log_clock>>
    /\ UNCHANGED notlog

\* self._writer.writerow([...]): the line terminator
LogWriteEol(t) ==
    /\ log_pc[t] = "eol"
    /\ log_buf' = Append(log_buf, Chunk(t, "eol"))
    /\ log_pc' = [log_pc EXCEPT ![t] = "flush"]
    /\ UNCHANGED <<log_calls, log_now, log_lock, log_file, log_clock>>
    /\ UNCHANGED notlog

\* self._file.flush()
LogFlush(t) ==
    /\ log_pc[t] = "flush"
    /\ log_file' = log_file \o log_buf
    /\ log_buf' = <<>>
    /\ log_pc' = [log_pc EXCEPT ![t] = "release"]
    /\ UNCHANGED <<log_calls, log_now, log_lock, log_clock>>
    /\ UNCHANGED notlog

\* "with self._lock:" exit, and the return of log
LogRelease(t) ==
    /\ log_pc[t] = "release"
    /\ log_lock' = 0
    /\ log_pc' = [log_pc EXCEPT ![t] = "idle"]
    /\ UNCHANGED <<log_calls, log_now, log_buf, log_file, log_clock>>
    /\ UNCHANGED notlog

\* no trial is run: the engine stays as constructed
EngineIdle == phase_members = TrialPhase /\ Construct(BaseConfig)

LogInitAlone == EngineIdle /\ SideInit

LogNext ==
    \E t \in Threads :
        \/ LogCall(t) \/ LogAcquire(t) \/ LogWriteFields(t)
        \/ LogWriteEol(t) \/ LogFlush(t) \/ LogRelease(t)

SpecLog == LogInitAlone /\ [][LogNext]_vars

(***************************************************************************)
(* WebcamCamera (src/hardware/camera_webcam.py): one thread calls          *)
(* start_recording and stop_recording, the record thread runs              *)
(* _record_loop, the grab thread runs _grab_loop.                          *)
(***************************************************************************)
RecordThreadAlive == wc_rpc \notin {"none", "done"}

\* start_recording(output_path, fps)
WcStartRecording ==
    /\ wc_pc = "idle"
    /\ wc_ncalls < WcCalls
    /\ wc_ncalls' = wc_ncalls + 1
    /\ wc_last' = "start"
    /\ wc_at_call' = [active |-> wc_recording \/ RecordThreadAlive,
                      frames |-> wc_frames]
    /\ IF wc_recording
       THEN UNCHANGED <<wc_stop_event, wc_frames, wc_recording, wc_rpc,
                        wc_writer, wc_written>>
       ELSE /\ wc_stop_event' = FALSE
            /\ wc_frames' = 0
            /\ wc_recording' = TRUE
            /\ wc_rpc' = "open"
            /\ wc_writer' = "none"
            /\ wc_written' = 0
    /\ UNCHANGED <<wc_gpc, wc_pc, wc_ret, wc_raised>>
    /\ UNCHANGED notwc

\* stop_recording() joining the record thread without the test for None
WcStopCallNoGuard ==
    /\ wc_pc = "idle"
    /\ wc_ncalls < WcCalls
    /\ wc_ncalls' = wc_ncalls + 1
    /\ wc_stop_event' = TRUE
    /\ wc_at_call' = [active |-> wc_recording \/ RecordThreadAlive,
                      frames |-> wc_frames]
    /\ IF wc_rpc = "none"
       THEN /\ wc_raised' = TRUE
            /\ wc_last' = "stop"
            /\ UNCHANGED <<wc_pc, wc_ret>>
       ELSE wc_pc' = "join" /\ UNCHANGED <<wc_raised, wc_last, wc_ret>>
    /\ UNCHANGED <<wc_recording, wc_frames, wc_rpc, wc_writer, wc_written,
                   wc_gpc>>
    /\ UNCHANGED notwc

\* stop_recording(): the event is set; with no record thread the call
\* returns the counter at once, otherwise it joins the thread
WcStopCall ==
    /\ wc_pc = "idle"
    /\ wc_ncalls < WcCalls
    /\ wc_ncalls' = wc_ncalls + 1
    /\ wc_stop_event' = TRUE
    /\ wc_at_call' = [active |-> wc_recording \/ RecordThreadAlive,
                      frames |-> wc_frames]
    /\ IF wc_rpc = "none"
       THEN wc_ret' = wc_frames /\ wc_last' = "stop" /\ UNCHANGED wc_pc
       ELSE wc_pc' = "join" /\ UNCHANGED <<wc_last, wc_ret>>
    /\ UNCHANGED <<wc_recording, wc_frames, wc_rpc, wc_writer, wc_written,
                   wc_gpc, wc_raised>>
    /\ UNCHANGED notwc

\* join returns because the record thread has ended
WcStopJoined ==
    /\ wc_pc = "join"
    /\ wc_rpc = "done"
    /\ wc_ret' = wc_frames
    /\ wc_last' = "stop"
    /\ wc_pc' = "idle"
    /\ UNCHANGED <<wc_recording, wc_stop_event, wc_frames, wc_rpc, wc_writer,
                   wc_written, wc_gpc, wc_ncalls, wc_at_call, wc_raised>>
    /\ UNCHANGED notwc

\* join(timeout=5.0) returns with the record thread still inside a call on
\* the capture device or the video writer
WcStopJoinTimeout ==
    /\ wc_pc = "join"
    /\ wc_rpc \in {"open", "read", "write"}
    /\ wc_ret' = wc_frames
    /\ wc_last' = "stop"
    /\ wc_pc' = "idle"
    /\ UNCHANGED <<wc_recording, wc_stop_event, wc_frames, wc_rpc, wc_writer,
                   wc_written, wc_gpc, wc_ncalls, wc_at_call, wc_raised>>
    /\ UNCHANGED notwc

\* what no step of the record thread touches
RecordKeeps ==
    UNCHANGED <<wc_stop_event, wc_gpc, wc_pc, wc_ncalls, wc_last, wc_ret,
                wc_at_call, wc_raised, notwc>>

\* _record_loop: the writer is created; it opens or it does not
WcRecOpen ==
    /\ wc_rpc = "open"
    /\ \E opened \in BOOLEAN :
           IF opened
           THEN /\ wc_writer' = "open"
                /\ wc_rpc' = "loop"
                /\ UNCHANGED wc_recording
           ELSE /\ wc_recording' = FALSE
                /\ wc_rpc' = "done"
                /\ UNCHANGED wc_writer
    /\ UNCHANGED <<wc_frames, wc_written>>
    /\ RecordKeeps

\* "while not self._stop_event.is_set()", and the finally clause
WcRecLoop ==
    /\ wc_rpc = "loop"
    /\ IF wc_stop_event
       THEN /\ wc_writer' = "released"
            /\ wc_recording' = FALSE
            /\ wc_rpc' = "done"
       ELSE /\ wc_rpc' = "read"
            /\ UNCHANGED <<wc_writer, wc_recording>>
    /\ UNCHANGED <<wc_frames, wc_written>>
    /\ RecordKeeps

\* "ret, frame = self._cap.read()" returns
WcRecRead ==
    /\ wc_rpc = "read"
    /\ \E ret \in BOOLEAN :
           wc_rpc' = IF ret /\ wc_written < WcFrames THEN "write" ELSE "loop"
    /\ UNCHANGED <<wc_recording, wc_writer, wc_frames, wc_written>>
    /\ RecordKeeps

\* "writer.write(gray)"
WcRecWrite ==
    /\ wc_rpc = "write"
    /\ wc_written' = wc_written + 1
    /\ wc_rpc' = "count"
    /\ UNCHANGED <<wc_recording, wc_writer, wc_frames>>
    /\ RecordKeeps

\* "self._frames_captured += 1"
WcRecCount ==
    /\ wc_rpc = "count"
    /\ wc_frames' = wc_frames + 1
    /\ wc_rpc' = "loop"
    /\ UNCHANGED <<wc_recording, wc_writer, wc_written>>
    /\ RecordKeeps

\* _grab_loop: "if self._recording: sleep; continue", else go on to read
WcGrabCheck ==
    /\ wc_gpc = "check"
    /\ wc_gpc' = IF wc_recording THEN "check" ELSE "read"
    /\ UNCHANGED <<wc_recording, wc_stop_event, wc_frames, wc_rpc, wc_writer,
                   wc_written, wc_pc, wc_ncalls, wc_last, wc_ret, wc_at_call,
                   wc_raised>>
    /\ UNCHANGED notwc

\* _grab_loop: "ret, frame = self._cap.read()" returns
WcGrabRead ==
    /\ wc_gpc = "read"
    /\ wc_gpc' = "check"
    /\ UNCHANGED <<wc_recording, wc_stop_event, wc_frames, wc_rpc, wc_writer,
                   wc_written, wc_pc, wc_ncalls, wc_last, wc_ret, wc_at_call,
                   wc_raised>>
    /\ UNCHANGED notwc

WcInitAlone == EngineIdle /\ SideInit

WcNext ==
    \/ WcStartRecording \/ WcStopCall \/ WcStopJoined \/ WcStopJoinTimeout
    \/ WcRecOpen \/ WcRecLoop \/ WcRecRead \/ WcRecWrite \/ WcRecCount
    \/ WcGrabCheck \/ WcGrabRead

SpecCam == WcInitAlone /\ [][WcNext]_vars

(***************************************************************************)
(* MainWindow: the expected end time of the experiment.  The worker's      *)
(* state_changed signal is delivered to _on_state_changed on the GUI       *)
(* thread; any state may be notified at any time.                          *)
(***************************************************************************)
ExperimentState ==
    {"IDLE", "PREFLIGHT", "RUNNING", "PAUSED", "WAITING_CONFIRM",
     "COMPLETED", "ABORTED", "ERROR"}

\* what the properties note at a notification of state: RUNNING is left for
\* a pause or a confirm wait when one of the two is notified in RUNNING
\* with the clock started; any other state ends the gap unjudged
Noted(state) ==
    /\ et_state' = state
    /\ et_prev_end' = expected_end
    /\ et_left' =
           IF state \in {"PAUSED", "WAITING_CONFIRM"}
           THEN IF experiment_started /\ et_state = "RUNNING"
                THEN et_now ELSE et_left
           ELSE None
    /\ et_dead' =
           IF state = "RUNNING" /\ experiment_started /\ et_left /= None
           THEN et_now - et_left ELSE None
    /\ UNCHANGED <<et_now, notet>>

\* time passes
EtTick ==
    /\ et_now < MaxClock
    /\ et_now' = et_now + 1
    /\ UNCHANGED <<experiment_started, expected_end, dead_time_start,
                   et_state, et_left, et_prev_end, et_dead, notet>>

\* _on_state_changed(ExperimentState.WAITING_CONFIRM)
OnWaitingConfirm ==
    /\ dead_time_start' = et_now
    /\ UNCHANGED <<experiment_started, expected_end>>
    /\ Noted("WAITING_CONFIRM")

\* _on_state_changed(ExperimentState.PAUSED)
OnPaused ==
    /\ dead_time_start' =
           IF dead_time_start = None THEN et_now ELSE dead_time_start
    /\ UNCHANGED <<experiment_started, expected_end>>
    /\ Noted("PAUSED")

\* _on_state_changed(ExperimentState.RUNNING), with _start_end_time_clock
OnRunning ==
    /\ IF ~experiment_started
       THEN /\ dead_time_start' = None
            /\ experiment_started' = TRUE
            /\ expected_end' = et_now + TotalEstimatedSec
       ELSE IF dead_time_start /= None /\ expected_end /= None
            THEN /\ expected_end' = expected_end + (et_now - dead_time_start)
                 /\ dead_time_start' = None
                 /\ UNCHANGED experiment_started
            ELSE UNCHANGED <<experiment_started, expected_end,
                             dead_time_start>>
    /\ Noted("RUNNING")

\* _on_state_changed with any other state: no branch is taken
OnOtherState ==
    /\ \E state \in ExperimentState \
                      {"WAITING_CONFIRM", "PAUSED", "RUNNING"} :
           Noted(state)
    /\ UNCHANGED <<experiment_started, expected_end, dead_time_start>>

EtInitAlone == EngineIdle /\ SideInit

EtNext ==
    \/ EtTick \/ OnWaitingConfirm \/ OnPaused \/ OnRunning \/ OnOtherState

SpecClock == EtInitAlone /\ [][EtNext]_vars

(***************************************************************************)
(* AppMemory.add_subjects (src/data/app_memory.py).                        *)
(***************************************************************************)
\* the loop body without "seen.add(name)"
AddNameForgetsSeen(st, name) ==
    IF name /= "" /\ name \notin st.seen
    THEN [st EXCEPT !.history = Append(@, name)]
    ELSE st

\* "if name and name not in seen: append; seen.add(name)"
AddName(st, name) ==
    IF name /= "" /\ name \notin st.seen
    THEN [history |-> Append(st.history, name),
          seen |-> st.seen \cup {name}]
    ELSE st

\* "for name in names:" from position k on
RECURSIVE AddLoop(_, _, _)
AddLoop(st, names, k) ==
    IF k > Len(names) THEN st
    ELSE AddLoop(AddName(st, names[k]), names, k + 1)

\* add_subjects(names) followed by save(), which may fail and only warn
AddSubjects ==
    \E names \in NameLists :
        /\ subject_history' =
               AddLoop([history |-> subject_history,
                        seen |-> Range(subject_history)], names, 1).history
        /\ \E written \in BOOLEAN :
               am_file' = IF written THEN subject_history' ELSE am_file
        /\ am_names' = names
        /\ am_before' = subject_history
        /\ am_repeat' = (names = am_names)
        /\ UNCHANGED notmem

\* get_subject_history(): a copy, the history is left as it is
GetSubjectHistory ==
    /\ am_repeat' = FALSE
    /\ am_names' = NoCall
    /\ am_before' = subject_history
    /\ UNCHANGED <<subject_history, am_file, notmem>>

MemInitAlone ==
    /\ EngineIdle
    /\ LogInit /\ WcInit /\ EtInit /\ CpInit
    /\ \E h \in Histories : MemInit(h)

MemNext == AddSubjects \/ GetSubjectHistory

SpecMem == MemInitAlone /\ [][MemNext]_vars

(***************************************************************************)
(* ControlPanel: the buttons of the main window.  update_for_state is      *)
(* called with every state the worker notifies; the operator clicks the    *)
(* buttons that are shown.                                                 *)
(***************************************************************************)
Buttons == {"start", "pause", "confirm", "skip", "stop"}

\* the buttons update_for_state shows for a state, after hiding all
ShownFor(state) ==
    CASE state = "IDLE" -> {"start"}
      [] state = "RUNNING" -> {"pause", "stop"}
      [] state = "PAUSED" -> {"pause", "stop"}
      [] state = "WAITING_CONFIRM" -> {"confirm", "skip", "stop"}
      [] OTHER -> {}

\* a click on a button emits one signal; noted with the state last shown
Emit(button, signal) ==
    cp_emitted' = Append(cp_emitted, [button |-> button, signal |-> signal,
                                      shown |-> cp_shown])

UpdateForState(state) ==
    /\ cp_visible' = ShownFor(state)
    /\ cp_shown' = state
    /\ IF state = "PAUSED"
       THEN cp_text' = "Resume" /\ cp_is_paused' = TRUE
       ELSE UNCHANGED <<cp_text, cp_is_paused>>
    /\ UNCHANGED cp_emitted
    /\ UNCHANGED notcp

OnStateShown == \E state \in ExperimentState : UpdateForState(state)

\* _on_pause_toggle, the slot of the pause button
OnPauseToggle ==
    /\ "pause" \in cp_visible
    /\ Len(cp_emitted) < PanelClicks
    /\ IF cp_is_paused
       THEN /\ Emit("pause", "resume_clicked")
            /\ cp_text' = "Pause"
            /\ cp_is_paused' = FALSE
       ELSE /\ Emit("pause", "pause_clicked")
            /\ cp_text' = "Resume"
            /\ cp_is_paused' = TRUE
    /\ UNCHANGED <<cp_visible, cp_shown>>
    /\ UNCHANGED notcp

\* the other buttons are connected to their signals directly
OnButtonClick ==
    /\ Len(cp_emitted) < PanelClicks
    /\ \E b \in cp_visible \ {"pause"} :
           CASE b = "start" -> Emit(b, "start_clicked")
             [] b = "confirm" -> Emit(b, "confirm_clicked")
             [] b = "skip" -> Emit(b, "skip_clicked")
             [] b = "stop" -> Emit(b, "stop_clicked")
    /\ UNCHANGED <<cp_is_paused, cp_text, cp_visible, cp_shown>>
    /\ UNCHANGED notcp

\* set_idle
SetIdle ==
    /\ cp_is_paused' = FALSE
    /\ cp_text' = "Pause"
    /\ cp_visible' = ShownFor("IDLE")
    /\ cp_shown' = "IDLE"
    /\ UNCHANGED cp_emitted
    /\ UNCHANGED notcp

CpInitAlone == EngineIdle /\ SideInit

CpNext == OnStateShown \/ OnPauseToggle \/ OnButtonClick \/ SetIdle

SpecPanel == CpInitAlone /\ [][CpNext]_vars

(***************************************************************************)
(* Properties.                                                             *)
(***************************************************************************)
Returned == pc = "done" /\ result \in {"true", "false"}

EventTypes == [k \in 1..Len(events) |-> events[k].type]

Count(type, n) ==
    Cardinality({k \in 1..Len(events) :
                    events[k].type = type /\ events[k].n = n})

RECURSIVE Repeat(_, _)
Repeat(block, k) == IF k = 0 THEN <<>> ELSE block \o Repeat(block, k - 1)

\* a request that arrived after the last abort check the run performs
AfterLastCheck ==
    \/ abort_pc \in {"post", "trial_end"}
    \/ /\ abort_i = imagination_cycles - 1
       /\ abort_pc \in {"rec_body", "rec_stop", "ebeep_on", "ebeep_body",
                        "ebeep_stop"}

\* C1 as stated: whenever request_abort() was invoked while the camera was
\* recording, run has returned false and stop_recording was called exactly
\* once for that recording.
C1_AbortInRecordingReturnsFalse ==
    (Returned /\ abort_in_rec) => (rec_stops = 1 /\ result = "false")

\* C1 amended: whenever request_abort() was invoked while the camera was
\* recording, stop_recording was called exactly once for that recording
\* before run returned and the camera is idle; run returned false unless
\* the request came after the last abort check of the run, which happens
\* only in the final cycle with n_end_beep <= 1, after the last check of
\* the recording wait.
C1_AbortInRecordingStopsOnce ==
    (Returned /\ abort_in_rec) =>
        /\ rec_stops = 1
        /\ ~recording
        /\ result = "true" =>
               /\ n_end_beep <= 1
               /\ abort_i = imagination_cycles - 1
               /\ abort_pc \in {"rec_body", "rec_stop"}

C1_Witness ==
    /\ Returned
    /\ abort_in_rec
    /\ abort_pc = "rec_body"
    /\ result = "false"
    /\ rec_stops = 1
    /\ phase = "MEASUREMENT_IMAGINING"

\* C2 as stated: run returns false whenever request_abort() was invoked
\* between its flag reset and its return, and true when it never was.
C2_AnyAbortReturnsFalse ==
    Returned => (result = "false" <=> abort_pc /= "none")

\* C2 amended: run returns false exactly when one of its abort checks finds
\* the flag set.  With no request during the run it returns true; a request
\* that arrives before the last abort check makes it return false; a
\* request that arrives after the last check (from the final cycle's last
\* per-frame check on, or during the post-measurement wait) is not seen and
\* run returns true.
C2_ReturnsFalseIffCheckSeesAbort ==
    Returned =>
        /\ abort_pc = "none" => result = "true"
        /\ result = "false" => (abort_pc /= "none" /\ abort_checks = 1)
        /\ (result = "true" /\ abort_pc /= "none") =>
               (abort_checks = 0 /\ AfterLastCheck)

C2_Witness ==
    Returned /\ result = "true" /\ abort_pc = "post" /\ imagination_cycles > 0

\* C3: the event types of a completed run are TRIAL_START, the four training
\* events per repetition, the two instruction events, the four measurement
\* events per cycle, one post-measurement instruction event and TRIAL_END,
\* whatever the frame counts.
C3_CanonicalEventOrder ==
    (pc = "done" /\ result = "true") =>
        \E p \in {"INSTRUCTION_OPEN_EYES", "INSTRUCTION_COMPLETED",
                  "INSTRUCTION_NEXT_PARTICIPANT"} :
            EventTypes =
                <<"TRIAL_START">>
                \o Repeat(<<"TRAINING_START_BEEP", "TRAINING_SHAPE_ON",
                            "TRAINING_END_BEEP", "TRAINING_SHAPE_OFF">>,
                          training_repetitions)
                \o <<"INSTRUCTION_CLOSE_EYES", "INSTRUCTION_STARTING">>
                \o Repeat(<<"IMAGINATION_START_BEEP", "RECORDING_START",
                            "RECORDING_STOP", "IMAGINATION_END_BEEP">>,
                          imagination_cycles)
                \o <<p, "TRIAL_END">>

C3_Witness ==
    /\ pc = "done"
    /\ result = "true"
    /\ training_repetitions = MaxReps
    /\ imagination_cycles = 1
    /\ n_shape = 0
    /\ n_start_beep = 0
    /\ n_end_beep = 0
    /\ n_blank = 0

\* run returned false from the check of the imagining wait of cycle i + 1
AbortedInImagining ==
    pc = "done" /\ result = "false" /\ phase = "MEASUREMENT_IMAGINING"

\* C4 as stated: a run aborted in the imagining wait of cycle k has logged
\* exactly one RECORDING_STOP for cycle k and no RECORDING_START for a later
\* cycle, and has returned false.
C4_AbortInImaginingLogsRecordingStop ==
    AbortedInImagining =>
        /\ Count("RECORDING_STOP", i + 1) = 1
        /\ \A k \in (i + 2)..imagination_cycles :
               Count("RECORDING_START", k) = 0

\* C5: when run has returned false no tone cue is sounding and the camera
\* is not recording.
C5_NothingActiveAfterAbort ==
    (pc = "done" /\ result = "false") => (playing = {} /\ ~recording)

C5_Witness ==
    /\ pc = "done"
    /\ result = "false"
    /\ last_stop.tone = "end_imagine"
    /\ last_stop.via = "direct"
    /\ phase = "MEASUREMENT_END_BEEP"
    /\ recordings = 2

\* C6 as stated: when an exception has left run, no tone cue is sounding
\* and the camera is not recording.
C6_NothingActiveAfterException ==
    (pc = "done" /\ result = "raised") => (playing = {} /\ ~recording)

\* C7 as stated: after request_abort() at most one further flip is issued.
C7_OneFlipAfterAbort == abort_flips <= 1

\* C7 amended: the flag is inspected at the top of every iteration of the
\* frame-counted waits and at the phase entries, but not before the flips
\* that start or stop a beep; after request_abort() at most three further
\* flips are issued before run returns.
C7_ThreeFlipsAfterAbort == abort_flips <= 3

C7_Witness == pc = "done" /\ result = "false" /\ abort_flips = 3

\* C8: n_recording_frames is n_imagination - n_start_beep -
\* n_recording_delay when that is positive and 1 otherwise, hence >= 1.
C8_RecordingFramesClamped ==
    LET d == n_imagination - n_start_beep - n_recording_delay
    IN  /\ d > 0 => n_recording_frames = d
        /\ d <= 0 => n_recording_frames = 1
        /\ n_recording_frames >= 1

C8_Witness ==
    /\ n_imagination - n_start_beep - n_recording_delay < 0
    /\ n_recording_frames = 1
    /\ pc = "idle"

Starts(tone) == tone \notin playing /\ tone \in playing'

\* what C9 asks of one step taken from a training position
BeepOnsetStep ==
    pc \in TrainingPcs =>
        /\ Starts("start_imagine") <=> (screen = "blank" /\ screen' = "shape")
        /\ Starts("end_imagine") <=> (screen = "shape" /\ screen' = "blank")
        /\ (Starts("start_imagine") \/ Starts("end_imagine")) =>
               flips' = flips + 1

\* C9: in training the start beep begins in the very flip that turns the
\* screen from blank to the shape, the end beep begins in the very flip
\* that turns it from the shape to blank, and the screen changes in no
\* other step.
C9_BeepOnsetWithVisualChange == [][BeepOnsetStep]_vars

C9_Witness ==
    /\ pc = "tend_stop"
    /\ i = 1
    /\ screen = "blank"
    /\ "end_imagine" \in playing
    /\ tone_age["end_imagine"] = 0

\* C10 as stated: once the shape has gone in a training repetition with
\* 1 <= n_start_beep <= n_shape, the start beep was stopped by an on-flip
\* callback on the flip n_start_beep flips after its onset.
C10_StartBeepStoppedOnFlip ==
    (pc \in {"tend_chk", "tend_body", "tend_stop"}
        /\ 1 <= n_start_beep /\ n_start_beep <= n_shape) =>
        last_stop = [tone |-> "start_imagine", age |-> n_start_beep,
                     via |-> "flip"]

\* C11: at every moment of a run at most one tone cue is sounding, and from
\* the flip that starts the training end beep until the flip that stops it
\* the start beep is silent, whatever n_start_beep and n_shape are.
C11_NoBeepOverrun ==
    /\ Cardinality(playing) <= 1
    /\ pc \in {"tend_chk", "tend_body", "tend_stop"} =>
           "start_imagine" \notin playing

C11_Witness ==
    /\ pc = "tend_stop"
    /\ n_shape >= 1
    /\ n_start_beep > n_shape
    /\ last_stop.tone = "start_imagine"
    /\ last_stop.via = "direct"
    /\ playing = {"end_imagine"}

IsPrefix(a, b) == Len(a) <= Len(b) /\ a = SubSeq(b, 1, Len(a))

InCycle(o, k) == o.part = "measurement" /\ o.n = k

\* the calls made on the audio player and the camera in measurement cycle k
CycleOps(k) ==
    LET sel == SelectSeq(ops, LAMBDA o : InCycle(o, k))
    IN  [j \in 1..Len(sel) |-> <<sel[j].op, sel[j].arg>>]

CycleOrder ==
    << <<"play", "start_imagine">>, <<"stop", "start_imagine">>,
       <<"start_recording", "">>, <<"stop_recording", "">>,
       <<"play", "end_imagine">>, <<"stop", "end_imagine">> >>

\* cycle k has run to the end of its end beep
CycleFinished(k) ==
    \/ pc \in MeasurementPcs \cup {"post", "trial_end"} /\ k <= i
    \/ pc \in {"inter_chk", "inter_body"} /\ k = i + 1
    \/ pc = "done" /\ result = "true" /\ k <= imagination_cycles

InstructionPcs ==
    {"delay_enter", "delay_chk", "delay_body", "instr_chk", "close_eyes",
     "cwait_chk", "cwait_body", "starting", "swait_chk", "swait_body",
     "meas_enter"}

BeforeRecordingPcs ==
    {"cyc_chk", "cyc_on", "sbeep_chk", "sbeep_body", "sbeep_stop",
     "rdelay_chk", "rdelay_body", "rec_start"}

\* C12: the calls of every measurement cycle are made in the order
\* start-beep play, start-beep stop, start_recording, stop_recording,
\* end-beep play, end-beep stop (all six once the cycle is finished, an
\* initial part of them before); no tone cue sounds while the camera is
\* recording; the camera is not recording during training, the instruction
\* sequence, the start beep or the recording delay.
C12_CycleOrderAndSilentRecording ==
    /\ \A k \in 1..imagination_cycles :
           /\ IsPrefix(CycleOps(k), CycleOrder)
           /\ CycleFinished(k) => CycleOps(k) = CycleOrder
    /\ recording => playing = {}
    /\ pc \in TrainingPcs \cup InstructionPcs \cup BeforeRecordingPcs =>
           ~recording

C12_Witness ==
    /\ pc = "rec_body"
    /\ i = 1
    /\ recording
    /\ CycleOps(1) = CycleOrder
    /\ Len(CycleOps(2)) = 3

\* the flip count at which call op was made in measurement cycle k
OpAt(op, k) ==
    LET sel == SelectSeq(ops, LAMBDA o : InCycle(o, k) /\ o.op = op)
    IN  sel[1].at

OpCount(op, k) ==
    Len(SelectSeq(ops, LAMBDA o : InCycle(o, k) /\ o.op = op))

\* C13: in every measurement cycle whose recording ran to its end (its
\* RECORDING_STOP row is logged), exactly n_recording_frames flips were
\* issued between the call of start_recording and that of stop_recording.
C13_RecordingWindowFlips ==
    \A k \in 1..imagination_cycles :
        Count("RECORDING_STOP", k) = 1 =>
            /\ OpCount("start_recording", k) = 1
            /\ OpCount("stop_recording", k) = 1
            /\ OpAt("stop_recording", k) - OpAt("start_recording", k)
                   = n_recording_frames

C13_Witness ==
    /\ pc = "ebeep_on"
    /\ i = 1
    /\ n_recording_frames = MaxFrames
    /\ Count("RECORDING_STOP", 2) = 1
    /\ OpAt("stop_recording", 2) = OpAt("start_recording", 2) + MaxFrames

\* the flip in which tone was played or stopped in measurement cycle k
ToneAt(op, tone, k) ==
    LET sel == SelectSeq(ops, LAMBDA o :
                   InCycle(o, k) /\ o.op = op /\ o.arg = tone)
    IN  sel[1].at

\* C14: in every finished measurement cycle with n_start_beep >= 1 and
\* n_end_beep >= 1, the start beep is stopped in the flip n_start_beep flips
\* after the one that played it, and the end beep in the flip n_end_beep
\* flips after the one that played it.
C14_BeepFrameCounts ==
    \A k \in 1..imagination_cycles :
        (CycleFinished(k) /\ n_start_beep >= 1 /\ n_end_beep >= 1) =>
            /\ ToneAt("stop", "start_imagine", k)
                   - ToneAt("play", "start_imagine", k) = n_start_beep
            /\ ToneAt("stop", "end_imagine", k)
                   - ToneAt("play", "end_imagine", k) = n_end_beep

C14_Witness ==
    /\ pc = "post"
    /\ imagination_cycles = BaseCycles
    /\ n_start_beep = MaxFrames
    /\ n_end_beep = MaxFrames
    /\ ToneAt("stop", "end_imagine", BaseCycles)
           = ToneAt("play", "end_imagine", BaseCycles) + MaxFrames
    /\ last_stop = [tone |-> "end_imagine", age |-> MaxFrames, via |-> "flip"]

\* run has left the training loop by its exit, not by a return or a failure
PastTraining ==
    \/ pc \in InstructionPcs \cup MeasurementPcs \cup {"post", "trial_end"}
    \/ pc = "done" /\ result = "true"

TrainingBeepEvents ==
    SelectSeq(events, LAMBDA e :
        e.type \in {"TRAINING_START_BEEP", "TRAINING_END_BEEP"})

TrainingEventTypes ==
    LET sel == SelectSeq(events, LAMBDA e :
                   e.type \in {"TRAINING_START_BEEP", "TRAINING_SHAPE_ON",
                               "TRAINING_END_BEEP", "TRAINING_SHAPE_OFF"})
    IN  [j \in 1..Len(sel) |-> sel[j].type]

TrainingOps ==
    LET sel == SelectSeq(ops, LAMBDA o : o.part = "training")
    IN  [j \in 1..Len(sel) |-> <<sel[j].op, sel[j].arg>>]

\* C15: once run has left the training loop with training_repetitions = R,
\* it has performed exactly R repetitions (shape on with start beep, start
\* beep stopped, shape off with end beep, end beep stopped) and has logged
\* exactly R TRAINING_START_BEEP and R TRAINING_END_BEEP rows, alternating
\* start then end, for flashes 1..R in order.
C15_ExactlyRTrainingCycles ==
    PastTraining =>
        /\ TrainingBeepEvents =
               [j \in 1..(2 * training_repetitions) |->
                   Ev(IF j % 2 = 1 THEN "TRAINING_START_BEEP"
                      ELSE "TRAINING_END_BEEP", (j + 1) \div 2, 0)]
        /\ TrainingEventTypes =
               Repeat(<<"TRAINING_START_BEEP", "TRAINING_SHAPE_ON",
                        "TRAINING_END_BEEP", "TRAINING_SHAPE_OFF">>,
                      training_repetitions)
        /\ TrainingOps =
               Repeat(<< <<"play", "start_imagine">>,
                         <<"stop", "start_imagine">>,
                         <<"play", "end_imagine">>,
                         <<"stop", "end_imagine">> >>, training_repetitions)

C15_Witness ==
    /\ pc = "instr_chk"
    /\ training_repetitions = MaxReps
    /\ Len(TrainingBeepEvents) = 2 * MaxReps
    /\ n_shape = MaxFrames
    /\ n_blank = MaxFrames

Completed == pc = "done" /\ result = "true"

CountType(type) ==
    Cardinality({k \in 1..Len(events) : events[k].type = type})

MeasurementTags ==
    {"MEASUREMENT_START_BEEP", "MEASUREMENT_RECORDING_DELAY",
     "MEASUREMENT_IMAGINING", "MEASUREMENT_END_BEEP",
     "MEASUREMENT_INTER_DELAY"}

\* the measurement tags reported, in order
MeasurementPhaseLog == SelectSeq(phase_log, LAMBDA t : t \in MeasurementTags)

CyclePhases ==
    <<"MEASUREMENT_START_BEEP", "MEASUREMENT_RECORDING_DELAY",
      "MEASUREMENT_IMAGINING", "MEASUREMENT_END_BEEP">>

\* C16: a completed run with imagination_cycles = C has logged exactly one
\* RECORDING_START and one RECORDING_STOP for each cycle 1..C and no other,
\* each between that cycle's start-beep play/stop and end-beep play/stop
\* calls; it reported MEASUREMENT_INTER_DELAY after every cycle except the
\* last, C - 1 times, each time holding n_inter_delay flips before the next
\* cycle's start-beep flip, and issued no flip after the last cycle's
\* end-beep stop.
C16_CyclesAndInterDelays ==
    Completed =>
        /\ CountType("RECORDING_START") = imagination_cycles
        /\ CountType("RECORDING_STOP") = imagination_cycles
        /\ \A k \in 1..imagination_cycles :
               /\ Count("RECORDING_START", k) = 1
               /\ Count("RECORDING_STOP", k) = 1
               /\ CycleOps(k) = CycleOrder
        /\ MeasurementPhaseLog =
               IF imagination_cycles = 0 THEN <<>>
               ELSE Repeat(CyclePhases \o <<"MEASUREMENT_INTER_DELAY">>,
                           imagination_cycles - 1) \o CyclePhases
        /\ \A k \in 1..(imagination_cycles - 1) :
               ToneAt("play", "start_imagine", k + 1)
                   - ToneAt("stop", "end_imagine", k) = n_inter_delay + 1
        /\ imagination_cycles >= 1 =>
               flips = ToneAt("stop", "end_imagine", imagination_cycles)

C16_Witness ==
    /\ Completed
    /\ imagination_cycles = MaxCycles
    /\ CountType("RECORDING_STOP") = MaxCycles
    /\ Len(SelectSeq(phase_log, LAMBDA t : t = "MEASUREMENT_INTER_DELAY"))
           = MaxCycles - 1

PostCues ==
    {"open_your_eyes", "experiment_completed", "next_participant_please"}

PostEventTypes ==
    {"INSTRUCTION_OPEN_EYES", "INSTRUCTION_COMPLETED",
     "INSTRUCTION_NEXT_PARTICIPANT"}

InstructionEventTypes ==
    PostEventTypes \cup {"INSTRUCTION_CLOSE_EYES", "INSTRUCTION_STARTING"}

\* the positions of the instruction rows logged after INSTRUCTION_STARTING
LateInstructionRows ==
    {k \in 1..Len(events) :
        /\ events[k].type \in InstructionEventTypes
        /\ \E j \in 1..(k - 1) : events[j].type = "INSTRUCTION_STARTING"}

\* C17: a completed run has played exactly one post-measurement cue:
\* open_your_eyes when is_last_shape is false, experiment_completed when
\* is_last_shape and is_last_queue_item are true, next_participant_please
\* when is_last_shape is true and is_last_queue_item is false; the matching
\* INSTRUCTION_* row is the only instruction row after the measurement and
\* is the row before TRIAL_END.
C17_PostCueFromFlags ==
    Completed =>
        LET cues == SelectSeq(instructions, LAMBDA c : c \in PostCues)
            row == events[Len(events) - 1].type
        IN  /\ Len(cues) = 1
            /\ instructions[Len(instructions)] = cues[1]
            /\ LateInstructionRows = {Len(events) - 1}
            /\ ~is_last_shape =>
                   (cues[1] = "open_your_eyes"
                       /\ row = "INSTRUCTION_OPEN_EYES")
            /\ (is_last_shape /\ is_last_queue_item) =>
                   (cues[1] = "experiment_completed"
                       /\ row = "INSTRUCTION_COMPLETED")
            /\ (is_last_shape /\ ~is_last_queue_item) =>
                   (cues[1] = "next_participant_please"
                       /\ row = "INSTRUCTION_NEXT_PARTICIPANT")

C17_Witness ==
    /\ Completed
    /\ imagination_cycles = 1
    /\ is_last_shape
    /\ is_last_queue_item
    /\ instructions =
           <<"close_your_eyes", "starting", "experiment_completed">>

\* the flips in which a beep play callback ran, in order
PlayFlips ==
    LET sel == SelectSeq(ops, LAMBDA o : o.op = "play")
    IN  [j \in 1..Len(sel) |-> sel[j].at]

\* C18: the beep-progress callback gets total = 2 * training_repetitions +
\* 2 * imagination_cycles and current = 1, 2, 3, ... in its successive
\* calls; current never exceeds total, whether the run is aborted or not;
\* the last call of a completed run has current = total; the calls are as
\* many as the beep play callbacks run, each made after the flip that ran
\* the play callback.
C18_BeepProgress ==
    /\ \A j \in 1..Len(beep_calls) :
           /\ beep_calls[j].current = j
           /\ beep_calls[j].total =
                  2 * training_repetitions + 2 * imagination_cycles
           /\ beep_calls[j].current <= beep_calls[j].total
    /\ Completed =>
           Len(beep_calls) = 2 * training_repetitions + 2 * imagination_cycles
    /\ [j \in 1..Len(beep_calls) |-> beep_calls[j].at] = PlayFlips

C18_Witness ==
    /\ Completed
    /\ training_repetitions = BaseReps
    /\ imagination_cycles = MaxCycles
    /\ Len(beep_calls) = 2 * BaseReps + 2 * MaxCycles
    /\ beep_calls[Len(beep_calls)].current = beep_calls[1].total

\* the tags ProgressPanel.set_phase names when it builds its label table,
\* which it does on every phase report it receives
PanelPhaseTags ==
    {"TRAINING_SHAPE", "TRAINING_BLANK", "INSTRUCTION_CLOSE_EYES",
     "INSTRUCTION_WAIT", "INSTRUCTION_STARTING", "INSTRUCTION_READY",
     "MEASUREMENT_START_BEEP", "MEASUREMENT_RECORDING_DELAY",
     "MEASUREMENT_IMAGINING", "MEASUREMENT_END_BEEP",
     "MEASUREMENT_INTER_DELAY", "INSTRUCTION_POST", "INTER_TRIAL"}

\* the tags run evaluates in the step it takes from position p (the
\* inter-delay tag after every cycle but the last)
TagsPassedAt(p) ==
    CASE p = "train_on" -> {"TRAINING_SHAPE"}
      [] p \in {"shape_exit", "tend_stop"} -> {"TRAINING_BLANK"}
      [] p = "delay_enter" -> {"INTER_TRIAL"}
      [] p = "close_eyes" -> {"INSTRUCTION_CLOSE_EYES", "INSTRUCTION_WAIT"}
      [] p = "starting" -> {"INSTRUCTION_STARTING", "INSTRUCTION_READY"}
      [] p = "cyc_on" -> {"MEASUREMENT_START_BEEP"}
      [] p = "sbeep_stop" -> {"MEASUREMENT_RECORDING_DELAY"}
      [] p = "rec_start" -> {"MEASUREMENT_IMAGINING"}
      [] p = "ebeep_on" -> {"MEASUREMENT_END_BEEP"}
      [] p = "ebeep_stop" -> {"MEASUREMENT_INTER_DELAY"}
      [] p = "post" -> {"INSTRUCTION_POST"}
      [] OTHER -> {}

\* C19 as stated: every tag run is about to pass to the phase-change
\* callback is a member of TrialPhase, and so is every tag the progress
\* panel names when it receives the report, so that no report fails.
C19_EveryReportedTagDefined ==
    \A t \in TagsPassedAt(pc) :
        /\ Defined(t)
        /\ PanelPhaseTags \subseteq phase_members

\* everything written so far, flushed or not, in the order it was written
LogWritten == log_file \o log_buf

\* the calls of log by thread t that have returned
LogReturned(t) ==
    IF log_pc[t] = "idle" THEN log_calls[t] ELSE log_calls[t] - 1

InCritical(t) == log_pc[t] \in {"fields", "eol", "flush", "release"}

\* the positions in seq of the chunks of kind part written by call k of t
ChunksOf(seq, t, k, part) ==
    {j \in 1..Len(seq) :
        seq[j].thread = t /\ seq[j].call = k /\ seq[j].part = part}

\* C20: for any interleaving of concurrent log calls, at most one thread
\* is between taking and releasing the lock; what has been written is a
\* sequence of whole rows (the fields of a call directly followed by the
\* line terminator of the same call), every call has written at most one
\* row, and every call that has returned has exactly one row, whole, in
\* the flushed part of the file.
C20_LogRowsSerialized ==
    /\ \A t, u \in Threads : (InCritical(t) /\ InCritical(u)) => t = u
    /\ \A t \in Threads : InCritical(t) => log_lock = t
    /\ \A j \in 1..Len(LogWritten) :
           IF j % 2 = 1
           THEN /\ LogWritten[j].part = "fields"
                /\ j = Len(LogWritten) =>
                       log_pc[LogWritten[j].thread] = "eol"
           ELSE LogWritten[j] = [LogWritten[j - 1] EXCEPT !.part = "eol"]
    /\ \A t \in Threads : \A k \in 1..LogCalls :
           /\ Cardinality(ChunksOf(LogWritten, t, k, "fields")) <= 1
           /\ Cardinality(ChunksOf(LogWritten, t, k, "eol")) <= 1
           /\ k > log_calls[t] => ChunksOf(LogWritten, t, k, "fields") = {}
           /\ k <= LogReturned(t) =>
                  /\ Cardinality(ChunksOf(log_file, t, k, "fields")) = 1
                  /\ Cardinality(ChunksOf(log_file, t, k, "eol")) = 1

C20_Witness ==
    /\ \A t \in Threads : log_pc[t] = "idle" /\ log_calls[t] = LogCalls
    /\ Len(log_file) = 2 * LogThreads * LogCalls
    /\ log_buf = <<>>
    /\ log_file[1].thread /= log_file[3].thread
    /\ log_file[1].ts > log_file[3].ts

\* the timestamp_s column of the rows of the file, in file order
LogRowStamps ==
    LET rows == SelectSeq(log_file, LAMBDA c : c.part = "fields")
    IN  [j \in 1..Len(rows) |-> rows[j].ts]

\* C21 as stated: for any interleaving of concurrent log calls the
\* timestamp_s values of the rows are non-decreasing in file order.
C21_TimestampsNonDecreasing ==
    \A j, k \in 1..Len(LogRowStamps) :
        j < k => LogRowStamps[j] <= LogRowStamps[k]

\* the last call made on the camera was op, it has returned, and when it
\* was made no recording was active
ReturnedFromIdle(op) ==
    wc_pc = "idle" /\ wc_last = op /\ ~wc_at_call.active

\* C22: stop_recording never raises; called with no recording active
\* (never started, or already stopped) it leaves is_recording() false and
\* the frame count as it was, and returns that count; a start_recording
\* made with no recording active, after any number of such calls, clears
\* the stop event, resets the count and starts the record thread, which
\* counts the frames it writes.
C22_StopWhenIdleIsNoOp ==
    /\ ~wc_raised
    /\ ReturnedFromIdle("stop") =>
           /\ ~wc_recording
           /\ ~RecordThreadAlive
           /\ wc_frames = wc_at_call.frames
           /\ wc_ret = wc_at_call.frames
    /\ ReturnedFromIdle("start") =>
           /\ ~wc_stop_event
           /\ wc_rpc /= "none"
           /\ wc_recording \/ (wc_rpc = "done" /\ wc_writer = "none")
           /\ wc_written = wc_frames + (IF wc_rpc = "count" THEN 1 ELSE 0)

C22_Witness ==
    /\ ReturnedFromIdle("stop")
    /\ wc_rpc = "done"
    /\ wc_ncalls = 3
    /\ wc_frames = WcFrames
    /\ wc_ret = WcFrames

\* C23 as stated: whenever stop_recording has returned, the record thread
\* has ended and released the video writer, is_recording() is false, and
\* the returned count is the number of frames written for the recording.
C23_StopBlocksUntilCaptureEnds ==
    (wc_pc = "idle" /\ wc_last = "stop") =>
        /\ ~RecordThreadAlive
        /\ wc_writer /= "open"
        /\ ~wc_recording
        /\ wc_ret = wc_written

FrameCounts ==
    <<n_shape, n_blank, n_start_beep, n_end_beep, n_recording_delay,
      n_imagination, n_inter_delay, n_recording_frames, n_close_eyes_wait,
      n_starting_wait, n_train_to_meas_delay>>

FrameCountsKept == UNCHANGED FrameCounts

\* C24: the frame counts derived at construction are left unchanged by every
\* step of run, whether it completes or aborts, and by request_abort.
C24_FrameCountsFixed == [][FrameCountsKept]_vars

C24_Witness ==
    /\ Returned
    /\ result = "false"
    /\ abort_in_rec
    /\ n_inter_delay = MaxFrames
    /\ n_recording_frames =
           RecordingFrames(n_imagination, n_start_beep, n_recording_delay)

FactoryCalls ==
    SelectSeq(path_calls, LAMBDA c : c.call = "video_path_factory")

StartCalls(k) ==
    SelectSeq(path_calls, LAMBDA c : c.call = "start_recording" /\ c.n = k)

\* the calls of start_recording and stop_recording, in the order made
CameraOps ==
    SelectSeq(ops, LAMBDA o : o.op \in {"start_recording", "stop_recording"})

\* the cycles whose body has got past the call of video_path_factory
CyclesEntered ==
    IF pc \in MeasurementPcs
    THEN IF pc \in {"cyc_chk", "cyc_on"} THEN i ELSE i + 1
    ELSE IF pc \in {"post", "trial_end"} \/ (pc = "done" /\ result = "true")
         THEN imagination_cycles
         ELSE Len(FactoryCalls)

\* C25: the cycles are entered in the order 1..imagination_cycles; for each
\* cycle entered video_path_factory is called exactly once, with the 1-based
\* number of the cycle; start_recording is called at most once in a cycle,
\* with the path the factory returned for that cycle; start_recording is
\* never called twice without stop_recording in between.
C25_OnePathPerCycle ==
    /\ Len(FactoryCalls) <= imagination_cycles
    /\ pc /= "done" => Len(FactoryCalls) = CyclesEntered
    /\ \A j \in 1..Len(FactoryCalls) :
           FactoryCalls[j].cycle = j /\ FactoryCalls[j].n = j
    /\ \A c \in 1..Len(path_calls) :
           path_calls[c].call = "start_recording" =>
               /\ path_calls[c].n \in 1..Len(FactoryCalls)
               /\ path_calls[c].path = FactoryCalls[path_calls[c].n].path
               /\ c > 1
               /\ path_calls[c - 1].call = "video_path_factory"
               /\ path_calls[c - 1].n = path_calls[c].n
    /\ \A k \in 1..imagination_cycles : Len(StartCalls(k)) <= 1
    /\ \A j \in 1..Len(CameraOps) :
           CameraOps[j].op = "start_recording" <=> j % 2 = 1

C25_Witness ==
    /\ Returned
    /\ result = "true"
    /\ imagination_cycles = MaxCycles
    /\ Len(FactoryCalls) = MaxCycles
    /\ FactoryCalls[1].path /= FactoryCalls[2].path
    /\ \A k \in 1..MaxCycles : Len(StartCalls(k)) = 1

\* the sum of what stop_recording returned in cycles 1..k
RECURSIVE SumFrames(_)
SumFrames(k) == IF k = 0 THEN 0 ELSE SumFrames(k - 1) + cam_frames[k]

\* C26: every RECORDING_STOP row carries the count stop_recording returned
\* for its cycle; the running total of a run is the sum of the counts
\* returned so far, from zero; the total_frames of the TRIAL_END row is the
\* sum of the counts returned over all the cycles of the run.
C26_FramesLogged ==
    /\ \A e \in 1..Len(events) :
           /\ events[e].type = "RECORDING_STOP" =>
                  events[e].v = cam_frames[events[e].n]
           /\ events[e].type = "TRIAL_END" =>
                  events[e].v = SumFrames(imagination_cycles)
    /\ pc \in MeasurementPcs \cup {"post", "trial_end"} =>
           total_frames_recorded = SumFrames(CountType("RECORDING_STOP"))

C26_Witness ==
    /\ Completed
    /\ imagination_cycles = MaxCycles
    /\ CountType("RECORDING_STOP") = MaxCycles
    /\ events[Len(events)].type = "TRIAL_END"
    /\ events[Len(events)].v = MaxCycles * MaxCapture

\* the calls made between the last call of the training phase and the first
\* call of the measurement phase
InstructionOps ==
    SelectSeq(ops, LAMBDA o : o.part = "other" /\ o.arg \notin PostCues)

\* the flips issued when the training phase was left
TrainingEndFlips ==
    LET sel == SelectSeq(ops, LAMBDA o : o.part = "training")
    IN  IF Len(sel) = 0 THEN 0
        ELSE sel[Len(sel)].at + (IF n_blank > 1 THEN n_blank - 1 ELSE 0)

FirstBeep ==
    SelectSeq(ops, LAMBDA o : InCycle(o, 1) /\ o.op = "play")

\* C27: after the training phase and n_train_to_meas_delay flips (none when
\* the delay is not configured) run plays close_your_eyes, issues exactly
\* n_close_eyes_wait flips, plays starting, issues exactly n_starting_wait
\* flips, and only then starts the first measurement beep, on the next
\* flip; nothing else is played and no recording is started in between; a
\* request to abort made in this interval lets at most the flip already
\* decided on be issued.
C27_InstructionSequence ==
    /\ IsPrefix(InstructionOps,
                << [op |-> "play_instruction", arg |-> "close_your_eyes",
                    at |-> TrainingEndFlips + n_train_to_meas_delay,
                    part |-> "other", n |-> training_repetitions + 1],
                   [op |-> "play_instruction", arg |-> "starting",
                    at |-> TrainingEndFlips + n_train_to_meas_delay
                               + n_close_eyes_wait,
                    part |-> "other", n |-> training_repetitions + 1] >>)
    /\ pc \in InstructionPcs \ {"meas_enter"} =>
           /\ ~recording
           /\ playing = {}
           /\ Len(InstructionOps) =
                  IF pc \in {"swait_chk", "swait_body"} THEN 2
                  ELSE IF pc \in {"starting", "cwait_chk", "cwait_body"}
                       THEN 1 ELSE 0
    /\ pc = "meas_enter" =>
           /\ ~recording /\ playing = {} /\ recordings = 0
           /\ Len(InstructionOps) = 2
           /\ flips = InstructionOps[2].at + n_starting_wait
    /\ Len(FirstBeep) > 0 =>
           /\ Len(InstructionOps) = 2
           /\ FirstBeep[1].at = InstructionOps[2].at + n_starting_wait + 1
    /\ abort_pc \in InstructionPcs => abort_flips <= 1

C27_Witness ==
    /\ Len(FirstBeep) > 0
    /\ training_repetitions > 0
    /\ n_train_to_meas_delay = MaxFrames
    /\ n_close_eyes_wait = MaxFrames
    /\ n_starting_wait = MaxFrames
    /\ FirstBeep[1].at = TrainingEndFlips + 3 * MaxFrames + 1

\* the flips on which the start beep of a training repetition was started
TrainingStarts ==
    SelectSeq(ops, LAMBDA o : /\ o.part = "training" /\ o.op = "play"
                              /\ o.arg = "start_imagine")

JustAfterTraining ==
    \/ pc = "delay_enter"
    \/ pc = "instr_chk" /\ n_train_to_meas_delay = 0

\* C28 as stated: with frame counts of at least 1, every training
\* repetition that was not aborted takes n_shape + n_end_beep + n_blank + 1
\* flips, the count the duration estimator uses.
C28_RepetitionFlipsAsEstimated ==
    (n_shape >= 1 /\ n_start_beep >= 1 /\ n_end_beep >= 1 /\ n_blank >= 1) =>
        /\ \A k \in 1..(Len(TrainingStarts) - 1) :
               TrainingStarts[k + 1].at - TrainingStarts[k].at
                   = EstimatedRepetitionFrames
        /\ (JustAfterTraining /\ training_repetitions > 0) =>
               flips - (TrainingStarts[training_repetitions].at - 1)
                   = EstimatedRepetitionFrames

\* the flip on which the end beep of measurement cycle k was stopped
CycleEndStops(k) ==
    SelectSeq(ops, LAMBDA o : /\ InCycle(o, k) /\ o.op = "stop"
                              /\ o.arg = "end_imagine")

CycleStarts(k) ==
    SelectSeq(ops, LAMBDA o : /\ InCycle(o, k) /\ o.op = "play"
                              /\ o.arg = "start_imagine")

\* C29 as stated: with frame counts of at least 1 and n_recording_frames
\* not clamped, every measurement cycle that was not aborted takes, from
\* the flip that starts its start beep to the flip that stops its end beep,
\* n_imagination + n_end_beep + 2 flips, the count the duration estimator
\* uses.
C29_CycleFlipsAsEstimated ==
    (/\ n_start_beep >= 1 /\ n_end_beep >= 1 /\ n_recording_delay >= 1
     /\ n_imagination - n_start_beep - n_recording_delay >= 1) =>
        \A k \in 1..imagination_cycles :
            (CycleFinished(k) /\ Len(CycleEndStops(k)) = 1) =>
                CycleEndStops(k)[1].at - (CycleStarts(k)[1].at - 1)
                    = EstimatedCycleFrames

NewNames(before, names) ==
    LET first == {j \in DOMAIN names :
                     /\ names[j] /= ""
                     /\ names[j] \notin Range(before)
                     /\ \A k \in 1..(j - 1) : names[k] /= names[j]}
        RECURSIVE Ordered(_)
        Ordered(j) == IF j > Len(names) THEN <<>>
                      ELSE (IF j \in first THEN <<names[j]>> ELSE <<>>)
                               \o Ordered(j + 1)
    IN  Ordered(1)

C32_AbortFlagDoesNotLeak ==
    /\ (InRun /\ abort) => abort_pc /= "none"
    /\ result = "false" => abort_pc /= "none"

C32_Witness ==
    /\ runs = 2
    /\ prev_result = "false"
    /\ result = "true"
    /\ abort_pc = "none"
    /\ imagination_cycles > 0

\* C33: TRIAL_START is the first row every run logs and is logged once;
\* TRIAL_END is logged at most once, only as the last row, and is in the
\* log exactly when run has returned true; a run that returns false has
\* logged none.
C33_TrialStartAndEndRows ==
    /\ pc /= "idle" => Len(events) > 0
    /\ \A e \in 1..Len(events) :
           /\ events[e].type = "TRIAL_START" <=> e = 1
           /\ events[e].type = "TRIAL_END" => e = Len(events)
    /\ CountType("TRIAL_END") = (IF result = "true" THEN 1 ELSE 0)

C33_Witness ==
    /\ result = "true"
    /\ imagination_cycles = BaseCycles
    /\ events[1].type = "TRIAL_START"
    /\ events[Len(events)].type = "TRIAL_END"
    /\ CountType("RECORDING_STOP") = BaseCycles
    /\ abort

\* the flip on which the end beep of measurement cycle k was started
CycleEndBeeps(k) ==
    SelectSeq(ops, LAMBDA o : /\ InCycle(o, k) /\ o.op = "play"
                              /\ o.arg = "end_imagine")

AbortObserved == result = "none" /\ result' = "false"

\* at most one call, and that the stop of a sounding tone or of the
\* recording in progress
AtMostOneStop ==
    \/ ops' = ops
    \/ /\ Len(ops') = Len(ops) + 1
       /\ SubSeq(ops', 1, Len(ops)) = ops
       /\ LET o == ops'[Len(ops')]
          IN  \/ o.op = "stop" /\ o.arg \in playing
              \/ o.op = "stop_recording" /\ recording

AbortEndsRun ==
    /\ AbortObserved =>
           /\ pc' = "done"
           /\ UNCHANGED <<flips, pending, screen, events, instructions,
                          recordings, beep_calls, phase_log, path_calls>>
           /\ playing' \subseteq playing
           /\ ~recording'
           /\ AtMostOneStop
    /\ (pc = "done" /\ pc' = "done") =>
           UNCHANGED <<flips, pending, screen, events, instructions,
                       recordings, beep_calls, phase_log, path_calls, ops,
                       playing, recording>>

\* C35: from the check at which run finds the flag set it issues no flip,
\* registers no on-flip callback, plays nothing, starts no recording,
\* writes no log row and reports no progress or phase; it makes at most
\* one call, the stop of the beep that is sounding or of the recording in
\* progress, and returns false.
C35_NothingAfterAbortObserved == [][AbortEndsRun]_vars

C35_Witness ==
    /\ result = "false"
    /\ Len(ops) > 0
    /\ ops[Len(ops)].op = "stop_recording"
    /\ ops[Len(ops)].n = BaseCycles
    /\ CountType("RECORDING_STOP") = BaseCycles - 1

AbortCheckPcs ==
    {"train_chk", "shape_chk", "tend_chk", "blank_chk", "delay_chk",
     "instr_chk", "cwait_chk", "swait_chk", "cyc_chk", "sbeep_chk",
     "rdelay_chk", "rec_chk", "ebeep_chk", "inter_chk"}

\* C36: every on-flip callback run registers is followed by a flip before
\* the next abort check or return: at every abort check, whenever run has
\* returned true or false, and when a later run is entered, no callback is
\* pending in the display's on-flip queue.
C36_NoCallbackLeftPending ==
    (pc \in AbortCheckPcs \/ Returned \/ pc = "idle") => pending = <<>>

C36_Witness ==
    /\ Returned
    /\ runs = 2
    /\ prev_result = "false"
    /\ last_stop.via = "flip"
    /\ pending = <<>>

\* C37 as stated: the preview grab thread and the recording thread never
\* read from the capture device at the same time; for every interleaving of
\* start_recording with the grab loop, the grab loop completes no read
\* between the start of a recording and the end of its record loop.
C37_GrabNeverReadsWhileRecording ==
    [][/\ ~(wc_gpc' = "read" /\ wc_rpc' = "read")
       /\ WcGrabRead => ~wc_recording]_vars

\* C38 as stated: for any sequence of update_for_state calls and clicks, a
\* click on the pause button made while the last state shown is RUNNING
\* emits pause_clicked, and one made while the last state shown is PAUSED
\* emits resume_clicked.
C38_PauseButtonFollowsShownState ==
    \A k \in 1..Len(cp_emitted) :
        cp_emitted[k].button = "pause" =>
            /\ cp_emitted[k].shown = "RUNNING" =>
                   cp_emitted[k].signal = "pause_clicked"
            /\ cp_emitted[k].shown = "PAUSED" =>
                   cp_emitted[k].signal = "resume_clicked"

====
